---------------------------- MODULE Spec2Model ----------------------------
(***************************************************************************)
(* Model of totp-cli: the encrypted-file codec (types.rs, chacha.rs), the  *)
(* record store load/save path (types.rs, ops/*.rs) and the TOTP code      *)
(* generation (otp.rs, print.rs).                                          *)
(*                                                                         *)
(* Bytes are integers 0..255, byte strings are sequences of bytes, text is *)
(* a sequence of ASCII codes.  An Option<T> is the empty sequence (None)   *)
(* or a one-element sequence (Some).                                       *)
(***************************************************************************)
EXTENDS Integers, Sequences, FiniteSets, TLC

(***************************************************************************)
(* Byte helpers                                                            *)
(***************************************************************************)
Min(a, b) == IF a < b THEN a ELSE b

RECURSIVE Pow2(_)
Pow2(n) == IF n = 0 THEN 1 ELSE 2 * Pow2(n - 1)

BitOf(b, j) == (b \div Pow2(j)) % 2

\* sum of s[lo..hi] modulo 256, by halves
RECURSIVE SumRange(_, _, _)
SumRange(s, lo, hi) ==
    IF lo > hi THEN 0
    ELSE IF lo = hi THEN s[lo] % 256
    ELSE LET mid == (lo + hi) \div 2 IN
         (SumRange(s, lo, mid) + SumRange(s, mid + 1, hi)) % 256

SumSeq(s) == SumRange(s, 1, Len(s))

\* position-weighted sum: separates sequences that differ by a swap
WSum(s, i) == SumRange([k \in 1..Len(s) |-> ((i + k - 1) * s[k]) % 256], 1, Len(s))

RECURSIVE Concat(_)
Concat(ss) == IF ss = <<>> THEN <<>> ELSE Head(ss) \o Concat(Tail(ss))

Drop(s, n) == SubSeq(s, n + 1, Len(s))

None == <<>>
Some(v) == <<v>>

(***************************************************************************)
(* Errors (error.rs)                                                       *)
(***************************************************************************)
ErrorKind ==
    {"InvalidOp", "InvalidExtension", "MissingArgument", "InvalidArgument",
     "IoError", "JsonError", "YamlError", "MacError", "UrlError",
     "ChaChaError", "RandError"}

Ok(v) == [tag |-> "ok", kind |-> "", msg |-> "", val |-> v]
Err(kind, msg) == [tag |-> "err", kind |-> kind, msg |-> msg, val |-> <<>>]
\* the thread panicked: the process aborts, nothing is returned
Panic(msg) == [tag |-> "panic", kind |-> "", msg |-> msg, val |-> <<>>]
NoResult == [tag |-> "none", kind |-> "", msg |-> "", val |-> <<>>]

IsOk(r) == r.tag = "ok"
IsErr(r) == r.tag = "err"
IsPanic(r) == r.tag = "panic"

(***************************************************************************)
(* Records (types.rs)                                                      *)
(***************************************************************************)
Algo == {"SHA1", "SHA256", "SHA512"}

default_algo == "SHA1"
default_digits == 6
default_step == 30

TotpRecord(secret, algo, digits, step, issuer, username) ==
    [secret |-> secret, algo |-> algo, digits |-> digits, step |-> step,
     issuer |-> issuer, username |-> username]

\* a TotpRecordDict is a function from a finite set of names to records;
\* the empty HashMap is the empty function
EmptyDict == <<>>

\* an insert that keeps the record a name already has
DictInsert_keeping(d, name, rec) ==
    [n \in (DOMAIN d) \cup {name} |-> IF n \in DOMAIN d THEN d[n] ELSE rec]

DictInsert(d, name, rec) ==
    [n \in (DOMAIN d) \cup {name} |-> IF n = name THEN rec ELSE d[n]]

DictRemove(d, name) == [n \in (DOMAIN d) \ {name} |-> d[n]]

(***************************************************************************)
(* Text constants (ASCII)                                                  *)
(***************************************************************************)
S_secret == <<115, 101, 99, 114, 101, 116>>
S_algo == <<97, 108, 103, 111>>
S_digits == <<100, 105, 103, 105, 116, 115>>
S_step == <<115, 116, 101, 112>>
S_issuer == <<105, 115, 115, 117, 101, 114>>
S_username == <<117, 115, 101, 114, 110, 97, 109, 101>>
S_null == <<110, 117, 108, 108>>
S_SHA1 == <<83, 72, 65, 49>>
S_SHA256 == <<83, 72, 65, 50, 53, 54>>
S_SHA512 == <<83, 72, 65, 53, 49, 50>>

QUOTE == <<34>>
COMMA == <<44>>
COLON == <<58>>
LBRACE == <<123>>
RBRACE == <<125>>
LBRACKET == <<91>>
RBRACKET == <<93>>

\* Algo::as_str
as_str(a) ==
    CASE a = "SHA1" -> S_SHA1
      [] a = "SHA256" -> S_SHA256
      [] a = "SHA512" -> S_SHA512

\* a match that takes the name in any letter case
try_from_str_any_case(v) ==
    CASE [i \in 1..Len(v) |-> IF v[i] >= 97 /\ v[i] <= 122 THEN v[i] - 32 ELSE v[i]]
             = S_SHA1 -> Ok("SHA1")
      [] [i \in 1..Len(v) |-> IF v[i] >= 97 /\ v[i] <= 122 THEN v[i] - 32 ELSE v[i]]
             = S_SHA256 -> Ok("SHA256")
      [] [i \in 1..Len(v) |-> IF v[i] >= 97 /\ v[i] <= 122 THEN v[i] - 32 ELSE v[i]]
             = S_SHA512 -> Ok("SHA512")
      [] OTHER -> Err("", "")

\* Algo::try_from_str: Ok(algo) or Err(())
try_from_str(v) ==
    CASE v = S_SHA1 -> Ok("SHA1")
      [] v = S_SHA256 -> Ok("SHA256")
      [] v = S_SHA512 -> Ok("SHA512")
      [] OTHER -> Err("", "")

\* cli::parse_algo
parse_algo(algo) ==
    IF IsOk(try_from_str(algo)) THEN Ok(try_from_str(algo).val)
    ELSE Err("InvalidArgument", "given value for algo is invalid")

\* the largest integer TLC represents; stands for u32::MAX and
\* u64::MAX wherever a record field is at its type's limit
IntMax == Pow2(30) + (Pow2(30) - 1)

(***************************************************************************)
(* serde_json: compact printer for HashMap<String, TotpRecord>             *)
(***************************************************************************)
\* u64::to_string / itoa: decimal digits, no sign, no leading zeros
RECURSIVE to_string(_)
to_string(n) ==
    IF n < 10 THEN <<48 + n>> ELSE to_string(n \div 10) \o <<48 + (n % 10)>>

JsonStr(s) == QUOTE \o s \o QUOTE

RECURSIVE JsonNums(_)
JsonNums(bs) ==
    IF bs = <<>> THEN <<>>
    ELSE IF Len(bs) = 1 THEN to_string(bs[1])
    ELSE to_string(bs[1]) \o COMMA \o JsonNums(Tail(bs))

JsonOpt(o) == IF o = None THEN S_null ELSE JsonStr(o[1])

JsonField(name, text) == JsonStr(name) \o COLON \o text

\* #[derive(Serialize)] for TotpRecord: fields in declaration order
JsonRecord(r) ==
    LBRACE
    \o JsonField(S_secret, LBRACKET \o JsonNums(r.secret) \o RBRACKET) \o COMMA
    \o JsonField(S_algo, JsonStr(as_str(r.algo))) \o COMMA
    \o JsonField(S_digits, to_string(r.digits)) \o COMMA
    \o JsonField(S_step, to_string(r.step)) \o COMMA
    \o JsonField(S_issuer, JsonOpt(r.issuer)) \o COMMA
    \o JsonField(S_username, JsonOpt(r.username))
    \o RBRACE

RECURSIVE JsonEntries(_, _)
JsonEntries(d, order) ==
    IF order = <<>> THEN <<>>
    ELSE JsonField(order[1], JsonRecord(d[order[1]]))
         \o (IF Len(order) > 1 THEN COMMA ELSE <<>>)
         \o JsonEntries(d, Tail(order))

\* serde_json::to_vec(records): the entries come in the HashMap's iteration
\* order, which differs from run to run; `order` lists the names in that order
to_vec(d, order) == LBRACE \o JsonEntries(d, order) \o RBRACE

\* every iteration order of a set of names
RECURSIVE Orders(_)
Orders(S) ==
    IF S = {} THEN {<<>>}
    ELSE UNION {{<<n>> \o o : o \in Orders(S \ {n})} : n \in S}

(***************************************************************************)
(* serde_json: parser for HashMap<String, TotpRecord>                      *)
(***************************************************************************)
PFail == [ok |-> FALSE, val |-> <<>>, pos |-> 0]
POk(v, p) == [ok |-> TRUE, val |-> v, pos |-> p]

\* the byte at p, or -1 at the end of input
At(b, p) == IF p >= 1 /\ p <= Len(b) THEN b[p] ELSE -1

IsDigit(c) == c >= 48 /\ c <= 57

RECURSIVE SkipWs(_, _)
SkipWs(b, p) == IF At(b, p) \in {32, 10, 13, 9} THEN SkipWs(b, p + 1) ELSE p

RECURSIVE PDigits(_, _, _, _)
PDigits(b, p, acc, max) ==
    IF IsDigit(At(b, p))
    THEN LET d == b[p] - 48 IN
         IF acc > (max - d) \div 10 THEN PFail
         ELSE PDigits(b, p + 1, acc * 10 + d, max)
    ELSE IF At(b, p) \in {46, 101, 69} THEN PFail
    ELSE POk(acc, p)

\* an unsigned integer of at most max: no sign, no leading zero, no fraction
PNat(b, p, max) ==
    IF ~IsDigit(At(b, p)) THEN PFail
    ELSE IF b[p] = 48
         THEN (IF IsDigit(At(b, p + 1)) \/ At(b, p + 1) \in {46, 101, 69}
               THEN PFail ELSE POk(0, p + 1))
    ELSE PDigits(b, p, 0, max)

\* a string without escapes (names and labels of the model hold none)
RECURSIVE PChars(_, _, _)
PChars(b, p, acc) ==
    LET c == At(b, p) IN
    IF c = 34 THEN POk(acc, p + 1)
    ELSE IF c < 32 \/ c = 92 THEN PFail
    ELSE PChars(b, p + 1, Append(acc, c))

PString(b, p) == IF At(b, p) = 34 THEN PChars(b, p + 1, <<>>) ELSE PFail

\* Vec<u8>: [n, n, ...]
RECURSIVE PNums(_, _, _)
PNumsNext(b, acc, q) ==
    IF At(b, q) = 44 THEN PNums(b, SkipWs(b, q + 1), acc)
    ELSE IF At(b, q) = 93 THEN POk(acc, q + 1)
    ELSE PFail

PNumsItem(b, acc, n) ==
    IF ~n.ok THEN PFail ELSE PNumsNext(b, Append(acc, n.val), SkipWs(b, n.pos))

PNums(b, p, acc) == PNumsItem(b, acc, PNat(b, p, 255))

PBytesBody(b, q) == IF At(b, q) = 93 THEN POk(<<>>, q + 1) ELSE PNums(b, q, <<>>)

PBytes(b, p) == IF At(b, p) # 91 THEN PFail ELSE PBytesBody(b, SkipWs(b, p + 1))

\* Option<String>: null or a string
POptSome(s) == IF s.ok THEN POk(Some(s.val), s.pos) ELSE PFail

POpt(b, p) ==
    IF SubSeq(b, p, Min(p + 3, Len(b))) = S_null THEN POk(None, p + 4)
    ELSE POptSome(PString(b, p))

\* Algo: one of the three variant names
PAlgoName(a, pos) == IF IsOk(a) THEN POk(a.val, pos) ELSE PFail

PAlgoStr(s) == IF ~s.ok THEN PFail ELSE PAlgoName(try_from_str(s.val), s.pos)

PAlgo(b, p) == PAlgoStr(PString(b, p))

RecordFields == {S_secret, S_algo, S_digits, S_step, S_issuer, S_username}

\* the value of a field the record does not have: read and dropped (a scalar
\* here: a string, a number or null)
PIgnoredNat(b, p, n) == IF n.ok THEN n ELSE POpt(b, p)

PIgnored(b, p) == PIgnoredNat(b, p, PNat(b, p, IntMax))

\* the value of the field key of a TotpRecord
PField(key, b, p) ==
    CASE key = S_secret -> PBytes(b, p)
      [] key = S_algo -> PAlgo(b, p)
      [] key = S_digits -> PNat(b, p, IntMax)
      [] key = S_step -> PNat(b, p, IntMax)
      [] key = S_issuer -> POpt(b, p)
      [] key = S_username -> POpt(b, p)
      [] OTHER -> PIgnored(b, p)

FieldOr(acc, key, dflt) == IF key \in DOMAIN acc THEN acc[key] ELSE dflt

\* a record whose missing digits are the 8 of otp::_DEFAULT_DIGITS
PFinish_otp_digits(acc, p) ==
    IF S_secret \notin DOMAIN acc THEN PFail
    ELSE POk(TotpRecord(acc[S_secret],
                        FieldOr(acc, S_algo, default_algo),
                        FieldOr(acc, S_digits, 8),
                        FieldOr(acc, S_step, default_step),
                        FieldOr(acc, S_issuer, None),
                        FieldOr(acc, S_username, None)), p)

\* #[derive(Deserialize)] for TotpRecord: secret is required, algo, digits
\* and step have serde defaults, a missing Option is None
PFinish(acc, p) ==
    IF S_secret \notin DOMAIN acc THEN PFail
    ELSE POk(TotpRecord(acc[S_secret],
                        FieldOr(acc, S_algo, default_algo),
                        FieldOr(acc, S_digits, default_digits),
                        FieldOr(acc, S_step, default_step),
                        FieldOr(acc, S_issuer, None),
                        FieldOr(acc, S_username, None)), p)

\* the members of a record object: "key": value, ... }
RECURSIVE PMembers(_, _, _)
PMembersNext(b, acc, r) ==
    IF At(b, r) = 44 THEN PMembers(b, SkipWs(b, r + 1), acc)
    ELSE IF At(b, r) = 125 THEN PFinish(acc, r + 1)
    ELSE PFail

PMembersValue(b, acc, key, v) ==
    IF ~v.ok THEN PFail
    ELSE IF key \notin RecordFields THEN PMembersNext(b, acc, SkipWs(b, v.pos))
    ELSE PMembersNext(b, DictInsert(acc, key, v.val), SkipWs(b, v.pos))

PMembersColon(b, acc, key, q) ==
    IF At(b, q) # 58 THEN PFail
    ELSE PMembersValue(b, acc, key, PField(key, b, SkipWs(b, q + 1)))

\* a field given twice is an error
PMembersKey(b, acc, k) ==
    IF ~k.ok \/ k.val \in DOMAIN acc THEN PFail
    ELSE PMembersColon(b, acc, k.val, SkipWs(b, k.pos))

PMembers(b, p, acc) == PMembersKey(b, acc, PString(b, p))

PRecordBody(b, q) ==
    IF At(b, q) = 125 THEN PFinish(<<>>, q + 1) ELSE PMembers(b, q, <<>>)

PRecord(b, p) == IF At(b, p) # 123 THEN PFail ELSE PRecordBody(b, SkipWs(b, p + 1))

\* the entries of the map: "name": record, ... }
RECURSIVE PEntries(_, _, _)
PEntriesNext(b, d, r) ==
    IF At(b, r) = 44 THEN PEntries(b, SkipWs(b, r + 1), d)
    ELSE IF At(b, r) = 125 THEN POk(d, r + 1)
    ELSE PFail

\* a name given twice keeps the later record (HashMap::insert)
PEntriesValue(b, d, name, v) ==
    IF ~v.ok THEN PFail
    ELSE PEntriesNext(b, DictInsert(d, name, v.val), SkipWs(b, v.pos))

PEntriesColon(b, d, name, q) ==
    IF At(b, q) # 58 THEN PFail
    ELSE PEntriesValue(b, d, name, PRecord(b, SkipWs(b, q + 1)))

PEntriesKey(b, d, k) ==
    IF ~k.ok THEN PFail ELSE PEntriesColon(b, d, k.val, SkipWs(b, k.pos))

PEntries(b, p, d) == PEntriesKey(b, d, PString(b, p))

PDictBody(b, q) ==
    IF At(b, q) = 125 THEN POk(EmptyDict, q + 1) ELSE PEntries(b, q, EmptyDict)

PDict(b, p) == IF At(b, p) # 123 THEN PFail ELSE PDictBody(b, SkipWs(b, p + 1))

\* serde_json::from_slice::<TotpRecordDict>: one value, then only whitespace
from_slice_end(b, r) ==
    IF r.ok /\ SkipWs(b, r.pos) = Len(b) + 1 THEN Ok(r.val)
    ELSE Err("JsonError", "")

from_slice(b) == from_slice_end(b, PDict(b, SkipWs(b, 1)))

\* serde_json::from_str::<TotpRecord>: one record, then only whitespace
from_str(j) == from_slice_end(j, PRecord(j, SkipWs(j, 1)))

(***************************************************************************)
(* serde_yml: block-style printer and reader for HashMap<String,           *)
(* TotpRecord>.  The crate is a library; the model covers the documents    *)
(* it writes for these types, and every cut or overlay of them: one entry  *)
(* per name at column 0, the record's fields indented by two spaces, the   *)
(* secret as a sequence of "- n" items at the indentation of its key.      *)
(***************************************************************************)
LF == <<10>>
INDENT == <<32, 32>>
ITEM == <<32, 32, 45, 32>>
APOS == <<39>>
S_empty_map == <<123, 125>>
S_empty_seq == <<91, 93>>
S_tilde == <<126>>

IsLetter(c) == (c >= 97 /\ c <= 122) \/ (c >= 65 /\ c <= 90)

\* words a plain scalar would not read back as a string
YamlReserved ==
    {S_null, S_tilde, <<116, 114, 117, 101>>, <<102, 97, 108, 115, 101>>,
     <<121>>, <<110>>, <<89>>, <<78>>, <<121, 101, 115>>, <<110, 111>>,
     <<111, 110>>, <<111, 102, 102>>}

IsPlain(s) ==
    /\ s # <<>>
    /\ \A i \in 1..Len(s) : IsLetter(s[i]) \/ (i > 1 /\ IsDigit(s[i]))
    /\ s \notin YamlReserved

\* a string scalar: plain when it reads back as the same string, else quoted
YamlStr(s) == IF IsPlain(s) THEN s ELSE APOS \o s \o APOS

YamlOpt(o) == IF o = None THEN S_null ELSE YamlStr(o[1])

YamlLine(key, text) == INDENT \o key \o COLON \o <<32>> \o text \o LF

RECURSIVE YamlItems(_)
YamlItems(bs) ==
    IF bs = <<>> THEN <<>> ELSE ITEM \o to_string(bs[1]) \o LF \o YamlItems(Tail(bs))

YamlSecret(bs) ==
    IF bs = <<>> THEN YamlLine(S_secret, S_empty_seq)
    ELSE INDENT \o S_secret \o COLON \o LF \o YamlItems(bs)

YamlRecord(r) ==
    YamlSecret(r.secret)
    \o YamlLine(S_algo, as_str(r.algo))
    \o YamlLine(S_digits, to_string(r.digits))
    \o YamlLine(S_step, to_string(r.step))
    \o YamlLine(S_issuer, YamlOpt(r.issuer))
    \o YamlLine(S_username, YamlOpt(r.username))

RECURSIVE YamlEntries(_, _)
YamlEntries(d, order) ==
    IF order = <<>> THEN <<>>
    ELSE YamlStr(order[1]) \o COLON \o LF \o YamlRecord(d[order[1]])
         \o YamlEntries(d, Tail(order))

\* what serde_yml::to_writer(writer, records) hands to the writer
yaml_to_vec(d, order) ==
    IF order = <<>> THEN S_empty_map \o LF ELSE YamlEntries(d, order)

YFail == Err("YamlError", "")

\* reader state: the entries read, the name and fields of the entry being
\* read, and whether items of its secret may follow ("no", "open": the key
\* was read and no item yet, "items")
YState(d, name, f, list) == [d |-> d, name |-> name, f |-> f, list |-> list]

\* the position of the line feed that ends the line starting at p
RECURSIVE YLineEnd(_, _)
YLineEnd(b, p) == IF p > Len(b) \/ b[p] = 10 THEN p ELSE YLineEnd(b, p + 1)

YScalar(t) ==
    IF Len(t) >= 2 /\ t[1] = 39 /\ t[Len(t)] = 39 THEN SubSeq(t, 2, Len(t) - 1)
    ELSE t

YIsNull(t) == t \in {<<>>, S_null, S_tilde}

YWhole(r, t) == IF r.ok /\ r.pos = Len(t) + 1 THEN r ELSE PFail

YNat(t, max) == YWhole(PNat(t, 1, max), t)

YAlgo(a) == IF IsOk(a) THEN POk(a.val, 0) ELSE PFail

YOpt(t) == IF YIsNull(t) THEN POk(None, 0) ELSE POk(Some(YScalar(t)), 0)

\* the value of the field key of a TotpRecord, from the text after "key: "
YValue(key, t) ==
    CASE key = S_secret ->
             IF t \in {<<>>, S_empty_seq} THEN POk(<<>>, 0) ELSE PFail
      [] key = S_algo -> YAlgo(try_from_str(YScalar(t)))
      [] key = S_digits -> YNat(t, IntMax)
      [] key = S_step -> YNat(t, IntMax)
      [] key = S_issuer -> YOpt(t)
      [] key = S_username -> YOpt(t)
      [] OTHER -> POk(None, 0)

\* the entry being read is complete: its record joins the entries
YCloseRecord(st, r) ==
    IF ~r.ok THEN YFail ELSE Ok(YState(DictInsert(st.d, st.name[1], r.val), None, <<>>, "no"))

YClose(st) ==
    IF st.list = "open" THEN YFail
    ELSE IF st.name = None THEN Ok(st)
    ELSE YCloseRecord(st, PFinish(st.f, 0))

YOpenEntry(closed, name) ==
    IF ~IsOk(closed) \/ name = <<>> THEN YFail
    ELSE Ok(YState(closed.val.d, Some(name), <<>>, "no"))

\* a line at column 0: "name:"
YTop(st, line) ==
    IF line[Len(line)] # 58 \/ 32 \in {line[i] : i \in 1..Len(line)} THEN YFail
    ELSE YOpenEntry(YClose(st), YScalar(SubSeq(line, 1, Len(line) - 1)))

YItemValue(st, n) ==
    IF ~n.ok THEN YFail
    ELSE Ok([st EXCEPT !.f = DictInsert(st.f, S_secret, Append(st.f[S_secret], n.val)),
                       !.list = "items"])

\* a line "  - n"
YItem(st, line) ==
    IF st.list = "no" THEN YFail
    ELSE YItemValue(st, YNat(SubSeq(line, 5, Len(line)), 255))

YFieldValue(st, key, t, v) ==
    IF ~v.ok THEN YFail
    ELSE IF key \notin RecordFields THEN Ok([st EXCEPT !.list = "no"])
    ELSE Ok([st EXCEPT !.f = DictInsert(st.f, key, v.val),
                       !.list = IF key = S_secret /\ t = <<>> THEN "open" ELSE "no"])

YFieldText(st, key, t) == YFieldValue(st, key, t, YValue(key, t))

\* the first colon of the line, or 0
YColon(line) ==
    IF \E i \in 1..Len(line) : line[i] = 58
    THEN CHOOSE i \in 1..Len(line) :
             line[i] = 58 /\ \A j \in 1..(i - 1) : line[j] # 58
    ELSE 0

YFieldAt(st, line, c) ==
    IF c < 4 \/ (\E i \in 3..(c - 1) : ~IsLetter(line[i])) THEN YFail
    ELSE IF SubSeq(line, 3, c - 1) \in DOMAIN st.f THEN YFail
    ELSE IF c = Len(line) THEN YFieldText(st, SubSeq(line, 3, c - 1), <<>>)
    ELSE IF line[c + 1] # 32 THEN YFail
    ELSE YFieldText(st, SubSeq(line, 3, c - 1), SubSeq(line, c + 2, Len(line)))

\* a line "  key: value" or "  key:"; a field given twice is an error
YField(st, line) ==
    IF st.name = None \/ st.list = "open" THEN YFail
    ELSE YFieldAt(st, line, YColon(line))

YLine(st, line) ==
    IF line = <<>> THEN Ok(st)
    ELSE IF line[1] # 32 THEN YTop(st, line)
    ELSE IF SubSeq(line, 1, Min(4, Len(line))) = ITEM THEN YItem(st, line)
    ELSE IF SubSeq(line, 1, Min(2, Len(line))) = INDENT THEN YField(st, line)
    ELSE YFail

\* the end of the document: a document without entries is no mapping
YEnd(closed) ==
    IF ~IsOk(closed) THEN YFail ELSE Ok(closed.val.d)

RECURSIVE YParse(_, _, _)
YParseNext(b, e, st) == IF ~IsOk(st) THEN YFail ELSE YParse(b, e + 1, st.val)

YParseLine(b, p, e, st) == YParseNext(b, e, YLine(st, SubSeq(b, p, e - 1)))

YParse(b, p, st) ==
    IF p > Len(b) THEN YEnd(YClose(st)) ELSE YParseLine(b, p, YLineEnd(b, p), st)

YBlank(b) == \A i \in 1..Len(b) : b[i] \in {10, 32}

\* serde_yml::from_reader::<_, TotpRecordDict>
yaml_from_slice(b) ==
    IF YBlank(b) THEN YFail
    ELSE IF b \in {S_empty_map, S_empty_map \o LF} THEN Ok(EmptyDict)
    ELSE YParse(b, 1, YState(EmptyDict, None, <<>>, "no"))

(***************************************************************************)
(* chacha.rs: key derivation, nonce, XChaCha20-Poly1305                    *)
(*                                                                         *)
(* The hkdf, rand and chacha20poly1305 crates are libraries.  They are     *)
(* modelled by their contracts with small stand-in arithmetic: the key is  *)
(* a deterministic function of the passphrase, the cipher adds a keystream *)
(* modulo 256, and the 16-byte tag is a checksum vector over key, nonce    *)
(* and ciphertext that separates any two inputs at Hamming distance one    *)
(* and any two keys make_key produces (the tag binds all three).           *)
(***************************************************************************)
KEY_LEN == 32
NONCE_LEN == 24
TAG_LEN == 16

\* Hkdf::<Sha3_256>::new(None, ikm): the pseudorandom key, one byte here
RECURSIVE HkdfExtract(_, _)
HkdfExtract(ikm, h) ==
    IF ikm = <<>> THEN h ELSE HkdfExtract(Tail(ikm), (h * 31 + Head(ikm) + 1) % 256)

\* Hkdf::expand(info, okm): fails only when more than 255 hash lengths are asked
HkdfExpand(prk, len) ==
    IF len > 255 * 32 THEN Err("ChaChaError", "failed to create a valid key length")
    ELSE Ok([i \in 1..len |-> (3 * prk + 17 * i) % 256])

\* a key expanded to the length of a nonce
make_key_nonce_len(secret) == HkdfExpand(HkdfExtract(secret, 92), NONCE_LEN)

\* make_key: no salt, an empty info, KEY_LEN bytes of output
make_key(secret) == HkdfExpand(HkdfExtract(secret, 92), KEY_LEN)

\* OsRng.try_fill_bytes: the bytes the operating system returns for a draw
NonceOf(seed) == [i \in 1..NONCE_LEN |-> (seed + 11 * i) % 256]

\* a nonce that is the same on every call
make_nonce_fixed(rng) == IF IsOk(rng) THEN Ok(NonceOf(0)) ELSE Err("RandError", "")

\* make_nonce: rng is the outcome of the draw, Ok(bytes) or an OsError
make_nonce(rng) == IF IsOk(rng) THEN Ok(rng.val) ELSE Err("RandError", "")

KeyStream(key, nonce, i) ==
    (key[1 + ((i - 1) % KEY_LEN)] + nonce[1 + ((i - 1) % NONCE_LEN)] + 29 * i) % 256

\* the cipher: the keystream is added to the plaintext byte by byte
StreamSeal(key, nonce, data) ==
    [i \in 1..Len(data) |-> (data[i] + KeyStream(key, nonce, i)) % 256]

\* and taken off the ciphertext again
StreamOpen(key, nonce, data) ==
    [i \in 1..Len(data) |-> (data[i] + 256 - KeyStream(key, nonce, i)) % 256]

Tag(key, nonce, ct) ==
    LET k1 == SumSeq(key)   k2 == WSum(key, 1)
        n1 == SumSeq(nonce) n2 == WSum(nonce, 1)
        c1 == SumSeq(ct)    c2 == WSum(ct, 1)
        l1 == Len(ct) % 256 l2 == (Len(ct) \div 256) % 256
    IN << key[1], k1, k2, key[KEY_LEN],
          nonce[1], n1, n2, nonce[NONCE_LEN],
          c1, c2, l1, l2,
          (k1 + n1 + c1) % 256, (k2 + n2 + c2) % 256,
          (key[1] + 2 * nonce[1]) % 256, (key[KEY_LEN] + nonce[NONCE_LEN] + l1) % 256 >>

\* XChaCha20Poly1305::new_from_slice
new_from_slice(key) == Len(key) = KEY_LEN

\* Aead::encrypt: the ciphertext followed by its tag
aead_encrypt(key, nonce, ct) == Ok(ct \o Tag(key, nonce, ct))

\* encrypt_data
encrypt_data(key, nonce, data) ==
    IF ~new_from_slice(key)
    THEN Err("ChaChaError", "length of provided key is invalid")
    ELSE aead_encrypt(key, nonce, StreamSeal(key, nonce, data))

\* a decrypt that returns the plaintext without verifying the tag
aead_decrypt_unverified(key, nonce, ct, tag) == Ok(StreamOpen(key, nonce, ct))

\* Aead::decrypt: verifies the tag, then returns the plaintext
aead_decrypt(key, nonce, ct, tag) ==
    IF tag # Tag(key, nonce, ct)
    THEN Err("ChaChaError", "failed to decrypt requested data")
    ELSE Ok(StreamOpen(key, nonce, ct))

\* a decrypt that tells a key that does not fit from damaged bytes
decrypt_data_telling(key, nonce, data) ==
    IF ~new_from_slice(key)
    THEN Err("ChaChaError", "length of provided key is invalid")
    ELSE IF Len(data) < TAG_LEN
    THEN Err("ChaChaError", "failed to decrypt requested data")
    ELSE IF data[Len(data) - TAG_LEN + 1] # key[1]
    THEN Err("ChaChaError", "wrong passphrase")
    ELSE aead_decrypt(key, nonce, SubSeq(data, 1, Len(data) - TAG_LEN),
                      Drop(data, Len(data) - TAG_LEN))

\* decrypt_data
decrypt_data(key, nonce, data) ==
    IF ~new_from_slice(key)
    THEN Err("ChaChaError", "length of provided key is invalid")
    ELSE IF Len(data) < TAG_LEN
    THEN Err("ChaChaError", "failed to decrypt requested data")
    ELSE aead_decrypt(key, nonce, SubSeq(data, 1, Len(data) - TAG_LEN),
                      Drop(data, Len(data) - TAG_LEN))

(***************************************************************************)
(* types.rs: TotpFile::encrypt / TotpFile::decrypt                         *)
(***************************************************************************)
\* Vec::with_capacity(data.len() - NONCE_LEN): usize subtraction.  A debug
\* build panics on the underflow; a release build wraps to a capacity above
\* isize::MAX, which Vec::with_capacity rejects with a panic as well.
CapacityPanics(len) == len < NONCE_LEN

\* the loop over 0..nonce.len(): the first NONCE_LEN bytes, when present
NoncePart(data) == SubSeq(data, 1, Min(NONCE_LEN, Len(data)))

\* a split that hands the whole file, nonce included, to decrypt_data
EncryptedPart_whole(data) == data

\* the while-let loop: everything after the nonce
EncryptedPart(data) == Drop(data, NONCE_LEN)

\* a decrypt that drops the error of decrypt_data instead of returning it
ParseDecrypted_lenient(decrypted) ==
    IF ~IsOk(decrypted) THEN Ok(EmptyDict) ELSE from_slice(decrypted.val)

\* `?` on decrypt_data, then serde_json::from_slice
ParseDecrypted(decrypted) ==
    IF ~IsOk(decrypted) THEN decrypted ELSE from_slice(decrypted.val)

\* TotpFile::decrypt
TotpFile_decrypt(key, data) ==
    IF CapacityPanics(Len(data)) THEN Panic("capacity overflow")
    ELSE IF Len(NoncePart(data)) < NONCE_LEN
    THEN Err("ChaChaError", "invalid file format for encrypted file")
    ELSE ParseDecrypted(decrypt_data(key, NoncePart(data), EncryptedPart(data)))

\* whether TotpFile::decrypt gets as far as calling decrypt_data
ReachesAead(data) ==
    ~CapacityPanics(Len(data)) /\ Len(NoncePart(data)) = NONCE_LEN

\* a layout with the nonce after the encrypted bytes
Contents_swapped(nonce, encrypted) == encrypted \o nonce

\* the two push loops: nonce first, then the encrypted bytes
Contents(nonce, encrypted) == nonce \o encrypted

\* `?` on encrypt_data, then the concatenation
SealContents(nonce, encrypted) ==
    IF ~IsOk(encrypted) THEN encrypted ELSE Ok(Contents(nonce, encrypted.val))

\* `?` on make_nonce, then to_vec and encrypt_data
SealWith(key, records, nonce, order) ==
    IF ~IsOk(nonce) THEN nonce
    ELSE SealContents(nonce.val, encrypt_data(key, nonce.val, to_vec(records, order)))

\* TotpFile::encrypt; rng is the outcome of the OsRng draw and order the
\* iteration order of the HashMap
TotpFile_encrypt(key, records, rng, order) ==
    SealWith(key, records, make_nonce(rng), order)

(***************************************************************************)
(* types.rs: TotpFile::from_path and TotpFile::update_file                 *)
(*                                                                         *)
(* A file is [exists, bytes].  An operation's input/output fault is        *)
(* [kind, part]: "none"; "open", the open for writing fails; "write", the  *)
(* device fails after part/FaultParts of the bytes have reached the file.  *)
(***************************************************************************)
S_yaml == <<121, 97, 109, 108>>
S_yml == <<121, 109, 108>>
S_json == <<106, 115, 111, 110>>
S_totp == <<116, 111, 116, 112>>

NoFile == [exists |-> FALSE, bytes |-> <<>>]
FileOf(bytes) == [exists |-> TRUE, bytes |-> bytes]

FaultParts == 2
NoFault == [kind |-> "none", part |-> 0]
Faults ==
    {NoFault, [kind |-> "open", part |-> 0]}
    \cup {[kind |-> "write", part |-> i] : i \in 0..(FaultParts - 1)}

\* how many of len bytes reach the file
BytesBefore(flt, len) ==
    IF flt.kind = "write" THEN (len * flt.part) \div FaultParts ELSE len

\* OsStr::to_ascii_lowercase
to_ascii_lowercase(t) ==
    [i \in 1..Len(t) |-> IF t[i] >= 65 /\ t[i] <= 90 THEN t[i] + 32 ELSE t[i]]

\* the TotpFile struct; the path is the one path of the model
TotpFile(file_type, records, key) ==
    [file_type |-> file_type, records |-> records, key |-> key]

\* `?` on the deserializer, then the struct
Loaded(file_type, parsed, key) ==
    IF ~IsOk(parsed) THEN parsed ELSE Ok(TotpFile(file_type, parsed.val, key))

\* get_reader: the open fails when there is no file
FromYaml(d) ==
    IF ~d.exists THEN Err("IoError", "")
    ELSE Loaded("YAML", yaml_from_slice(d.bytes), None)

FromJson(d) ==
    IF ~d.exists THEN Err("IoError", "")
    ELSE Loaded("JSON", from_slice(d.bytes), None)

\* make_key, then std::fs::read, then decrypt
FromTotpKey(d, key) ==
    IF ~IsOk(key) THEN key
    ELSE IF ~d.exists THEN Err("IoError", "")
    ELSE Loaded("TOTP", TotpFile_decrypt(key.val, d.bytes), Some(key.val))

\* a load that goes on to the other passphrases when the typed one fails
FromTotp_retrying(d, typed) ==
    IF ~IsOk(typed) THEN typed
    ELSE IF IsOk(FromTotpKey(d, make_key(typed.val)))
    THEN FromTotpKey(d, make_key(typed.val))
    ELSE IF IsOk(FromTotpKey(d, make_key(<<112, 119, 10>>)))
    THEN FromTotpKey(d, make_key(<<112, 119, 10>>))
    ELSE FromTotpKey(d, make_key(<<112, 122, 10>>))

\* typed: what cli::get_input("secret") returned
FromTotp(d, typed) ==
    IF ~IsOk(typed) THEN typed ELSE FromTotpKey(d, make_key(typed.val))

FromExt(ext, d, typed) ==
    IF ext \in {S_yaml, S_yml} THEN FromYaml(d)
    ELSE IF ext = S_json THEN FromJson(d)
    ELSE IF ext = S_totp THEN FromTotp(d, typed)
    ELSE Err("InvalidExtension", "unknown file extension given from path")

\* a from_path that compares the extension as it is written
from_path_as_written(ext, d, typed) ==
    IF ext = None
    THEN Err("InvalidExtension", "no file extension found for given path")
    ELSE FromExt(ext[1], d, typed)

\* TotpFile::from_path; ext is path.extension()
from_path(ext, d, typed) ==
    IF ext = None
    THEN Err("InvalidExtension", "no file extension found for given path")
    ELSE FromExt(to_ascii_lowercase(ext[1]), d, typed)

\* what an update_file call did: its result, the file afterwards, the bytes
\* it had made in memory, the outcome of its OsRng draw, the key and nonce it
\* gave to encrypt_data, and the fault that struck
Saved(out, d, made, rng, sealing, struck) ==
    [out |-> out, disk |-> d, made |-> made, rng |-> rng, sealing |-> sealing,
     struck |-> struck]

\* File::write at offset 0 of a file opened without truncate
Overlay(old, new) == new \o Drop(old, Len(new))

\* to_writer(get_writer(path)?, records): get_writer opens with write(true)
\* only, so a missing file is an error and the old bytes stay in place.  The
\* stores of the model are far below the BufWriter's capacity: to_writer only
\* fills the buffer and returns Ok, and the bytes reach the file when the
\* BufWriter is dropped, where a write error is discarded.
StreamSave(d, bytes, flt) ==
    IF ~d.exists \/ flt.kind = "open"
    THEN Saved(Err("IoError", ""), d, None, NoResult, None,
               IF flt.kind = "open" THEN "open" ELSE "none")
    ELSE Saved(Ok(<<>>),
               FileOf(Overlay(d.bytes, SubSeq(bytes, 1, BytesBefore(flt, Len(bytes))))),
               Some(bytes), NoResult, None, flt.kind)

\* std::fs::write(path, contents): File::create truncates, write_all follows
WriteFile(d, contents, rng, sealing, flt) ==
    IF flt.kind = "open"
    THEN Saved(Err("IoError", ""), d, Some(contents), rng, sealing, "open")
    ELSE IF flt.kind = "write"
    THEN Saved(Err("IoError", ""),
               FileOf(SubSeq(contents, 1, BytesBefore(flt, Len(contents)))),
               Some(contents), rng, sealing, "write")
    ELSE Saved(Ok(<<>>), FileOf(contents), Some(contents), rng, sealing, "none")

\* what encrypt_data was given, when encrypt got as far as calling it
SealingOf(key, nonce) == IF IsOk(nonce) THEN Some(<<key, nonce.val>>) ELSE None

\* `?` on Self::encrypt, then the write
SealedSave(d, key, contents, rng, flt) ==
    IF ~IsOk(contents) THEN Saved(contents, d, None, rng, SealingOf(key, make_nonce(rng)), "none")
    ELSE WriteFile(d, contents.val, rng, SealingOf(key, make_nonce(rng)), flt)

\* a save that seals under the key of the empty passphrase
TotpSave_other_key(file, d, rng, order, flt) ==
    IF file.key = None
    THEN Saved(Err("ChaChaError", "missing key"), d, None, NoResult, None, "none")
    ELSE SealedSave(d, make_key(<<>>).val,
                    TotpFile_encrypt(make_key(<<>>).val, file.records, rng, order),
                    rng, flt)

TotpSave(file, d, rng, order, flt) ==
    IF file.key = None
    THEN Saved(Err("ChaChaError", "missing key"), d, None, NoResult, None, "none")
    ELSE SealedSave(d, file.key[1],
                    TotpFile_encrypt(file.key[1], file.records, rng, order), rng, flt)

\* TotpFile::update_file; order is the iteration order of the HashMap
update_file(file, d, rng, order, flt) ==
    CASE file.file_type = "YAML" -> StreamSave(d, yaml_to_vec(file.records, order), flt)
      [] file.file_type = "JSON" -> StreamSave(d, to_vec(file.records, order), flt)
      [] file.file_type = "TOTP" -> TotpSave(file, d, rng, order, flt)

(***************************************************************************)
(* ops/new.rs, ops/add.rs, ops/drop.rs, ops/add_json.rs                    *)
(***************************************************************************)
\* what a run of an operation did: the update_file outcome, or the error
\* that ended the run before update_file, the TotpFile it held last, and
\* how many times it called update_file
Ran(saved, file, updates) == [saved |-> saved, file |-> file, updates |-> updates]

Stopped(out, d) == Ran(Saved(out, d, None, NoResult, None, "none"), None, 0)

SaveOf(file, d, rng, order, flt) ==
    Ran(update_file(file, d, rng, order, flt), Some(file), 1)

\* new::run once the path is built: the file must not exist, the secret is
\* prompted, and an empty store is written
new_make(key, d, rng, order, flt) ==
    IF ~IsOk(key) THEN Stopped(key, d)
    ELSE SaveOf(TotpFile("TOTP", EmptyDict, Some(key.val)), d, rng, order, flt)

\* a new that does not look whether the file exists
new_run_over(d, typed, rng, order, flt) ==
    IF ~IsOk(typed) THEN Stopped(typed, d)
    ELSE new_make(make_key(typed.val), d, rng, order, flt)

new_run(d, typed, rng, order, flt) ==
    IF d.exists
    THEN Stopped(Err("InvalidArgument", "the specified file already exists"), d)
    ELSE IF ~IsOk(typed) THEN Stopped(typed, d)
    ELSE new_make(make_key(typed.val), d, rng, order, flt)

\* add::run after from_path: insert, then update_file
add_run(loaded, d, name, record, rng, order, flt) ==
    IF ~IsOk(loaded) THEN Stopped(loaded, d)
    ELSE SaveOf([loaded.val EXCEPT !.records = DictInsert(@, name, record)],
                d, rng, order, flt)

\* error::build::name_not_found: the message is this text followed by the
\* name in quotes; the name is kept in val
name_not_found(name) ==
    [Err("InvalidArgument", "given name does not exist in file. ") EXCEPT !.val = name]

\* a drop that does not look at what remove returned
drop_run_unchecked(loaded, d, name, rng, order, flt) ==
    IF ~IsOk(loaded) THEN Stopped(loaded, d)
    ELSE SaveOf([loaded.val EXCEPT !.records = DictRemove(@, name)],
                d, rng, order, flt)

\* drop::run after from_path: remove, then update_file
drop_run(loaded, d, name, rng, order, flt) ==
    IF ~IsOk(loaded) THEN Stopped(loaded, d)
    ELSE IF name \notin DOMAIN loaded.val.records
    THEN Ran(Saved(name_not_found(name), d, None, NoResult, None, "none"),
             Some(loaded.val), 0)
    ELSE SaveOf([loaded.val EXCEPT !.records = DictRemove(@, name)],
                d, rng, order, flt)

\* a run that returned after from_path without calling update_file
Returned(out, d, file) ==
    Ran(Saved(out, d, None, NoResult, None, "none"), Some(file), 0)

\* add_json::run from the name on: the name is required, -v only prints
add_json_insert(file, d, record, name, view_only, rng, order, flt) ==
    IF name = None THEN Returned(Err("MissingArgument", "missing name argument"), d, file)
    ELSE IF view_only THEN Returned(Ok(<<>>), d, file)
    ELSE SaveOf([file EXCEPT !.records = DictInsert(@, name[1], record)],
                d, rng, order, flt)

\* `?` on serde_json::from_str
add_json_parsed(file, d, record, name, view_only, rng, order, flt) ==
    IF ~IsOk(record) THEN Returned(record, d, file)
    ELSE add_json_insert(file, d, record.val, name, view_only, rng, order, flt)

\* add_json::run after the arguments: from_path, then the --json text
add_json_run(loaded, d, json, name, view_only, rng, order, flt) ==
    IF ~IsOk(loaded) THEN Stopped(loaded, d)
    ELSE IF json = None THEN Returned(Err("JsonError", "given invalid json."), d, loaded.val)
    ELSE add_json_parsed(loaded.val, d, from_str(json[1]), name, view_only,
                         rng, order, flt)

(***************************************************************************)
(* cli.rs: the parsers of argument texts                                   *)
(***************************************************************************)
\* the value of a BASE32 symbol (A-Z, 2-7), or 32 for any other byte
Base32Value(c) ==
    IF c >= 65 /\ c <= 90 THEN c - 65
    ELSE IF c >= 50 /\ c <= 55 THEN c - 24
    ELSE 32

\* the bytes of one block of eight symbols of which the first n are data
Base32Block(v, n) ==
    SubSeq(<<v[1] * 8 + v[2] \div 4,
             (v[2] % 4) * 64 + v[3] * 2 + v[4] \div 16,
             (v[4] % 16) * 16 + v[5] \div 2,
             (v[5] % 2) * 128 + v[6] * 4 + v[7] \div 8,
             (v[7] % 8) * 32 + v[8]>>,
           1, (n * 5) \div 8)

\* the data symbols of a block: those before its padding
Base32Data(blk) ==
    IF \E n \in 0..7 : blk[n + 1] = 61
    THEN (CHOOSE n \in 0..7 : blk[n + 1] = 61 /\ \A m \in 1..n : blk[m] # 61)
    ELSE 8

\* a block is well formed when its data are symbols, its padding is all
\* '=', the number of data symbols is one a byte count gives, and the bits
\* past the last byte are zero
Base32BlockOk(blk) ==
    /\ Base32Data(blk) \in {2, 4, 5, 7, 8}
    /\ \A i \in 1..8 : IF i <= Base32Data(blk) THEN Base32Value(blk[i]) < 32
                       ELSE blk[i] = 61
    /\ CASE Base32Data(blk) = 2 -> Base32Value(blk[2]) % 4 = 0
         [] Base32Data(blk) = 4 -> Base32Value(blk[4]) % 16 = 0
         [] Base32Data(blk) = 5 -> Base32Value(blk[5]) % 2 = 0
         [] Base32Data(blk) = 7 -> Base32Value(blk[7]) % 8 = 0
         [] OTHER -> TRUE

Base32Values(blk) ==
    [i \in 1..8 |-> IF Base32Value(blk[i]) < 32 THEN Base32Value(blk[i]) ELSE 0]

\* data_encoding::BASE32.decode: padded blocks of eight symbols
RECURSIVE Base32Decode(_)
Base32Decode(t) ==
    IF t = <<>> THEN Ok(<<>>)
    ELSE IF Len(t) < 8 \/ ~Base32BlockOk(SubSeq(t, 1, 8)) THEN Err("", "")
    ELSE IF ~IsOk(Base32Decode(Drop(t, 8))) THEN Err("", "")
    ELSE Ok(Base32Block(Base32Values(SubSeq(t, 1, 8)), Base32Data(SubSeq(t, 1, 8)))
            \o Base32Decode(Drop(t, 8)).val)

\* cli::parse_secret
parse_secret(secret) ==
    IF IsOk(Base32Decode(secret)) THEN Base32Decode(secret)
    ELSE Err("InvalidArgument", "key is an invalid base32 value")

\* the digits of from_str_radix: every byte a decimal digit, the value
\* within max
RECURSIVE RadixDigits(_, _, _, _)
RadixDigits(t, i, acc, max) ==
    IF i > Len(t) THEN Ok(acc)
    ELSE IF t[i] < 48 \/ t[i] > 57 THEN Err("", "")
    ELSE IF acc > (max - (t[i] - 48)) \div 10 THEN Err("", "")
    ELSE RadixDigits(t, i + 1, acc * 10 + (t[i] - 48), max)

\* u32::from_str_radix(text, 10) and u64::from_str_radix(text, 10): an
\* optional '+', then at least one digit
from_str_radix(t, max) ==
    IF t = <<>> THEN Err("", "")
    ELSE IF t[1] = 43 THEN (IF Len(t) = 1 THEN Err("", "") ELSE RadixDigits(t, 2, 0, max))
    ELSE RadixDigits(t, 1, 0, max)

\* cli::parse_digits
parse_digits(digits) ==
    IF IsOk(from_str_radix(digits, IntMax)) THEN from_str_radix(digits, IntMax)
    ELSE Err("InvalidArgument", "digits is not a valid unsiged integer")

\* cli::parse_step
parse_step(step) ==
    IF IsOk(from_str_radix(step, IntMax)) THEN from_str_radix(step, IntMax)
    ELSE Err("InvalidArgument", "step/period is not a valid unsiged integer")

(***************************************************************************)
(* ops/add_url.rs                                                          *)
(*                                                                         *)
(* url::Url::parse is a library: the model starts from what it returns, a  *)
(* scheme, a domain, the first segment of the path as it is written and    *)
(* the pairs of the query as query_pairs decodes them.  A URL with a       *)
(* domain always has path segments.                                        *)
(***************************************************************************)
DEFAULT_STEP == 30
DEFAULT_DIGITS == 8

Url(scheme, domain, first, query) ==
    [scheme |-> scheme, domain |-> domain, first |-> first, query |-> query]

HexValue(c) ==
    IF c >= 48 /\ c <= 57 THEN c - 48
    ELSE IF c >= 65 /\ c <= 70 THEN c - 55
    ELSE IF c >= 97 /\ c <= 102 THEN c - 87
    ELSE 16

\* percent_encoding::percent_decode_str: %XY with two hex digits is one
\* byte, every other byte stands for itself
RECURSIVE percent_decode(_)
percent_decode(t) ==
    IF t = <<>> THEN <<>>
    ELSE IF t[1] = 37 /\ Len(t) >= 3 /\ HexValue(t[2]) < 16 /\ HexValue(t[3]) < 16
    THEN <<HexValue(t[2]) * 16 + HexValue(t[3])>> \o percent_decode(Drop(t, 3))
    ELSE <<t[1]>> \o percent_decode(Tail(t))

Utf8Tail(t, n) == Len(t) >= n /\ \A i \in 2..n : t[i] >= 128 /\ t[i] <= 191

\* the length of the first character of t in UTF-8, 0 when it is malformed
Utf8Width(t) ==
    CASE t[1] < 128 -> 1
      [] t[1] >= 194 /\ t[1] <= 223 /\ Utf8Tail(t, 2) -> 2
      [] t[1] >= 224 /\ t[1] <= 239 /\ Utf8Tail(t, 3)
         /\ (t[1] = 224 => t[2] >= 160) /\ (t[1] = 237 => t[2] <= 159) -> 3
      [] t[1] >= 240 /\ t[1] <= 244 /\ Utf8Tail(t, 4)
         /\ (t[1] = 240 => t[2] >= 144) /\ (t[1] = 244 => t[2] <= 143) -> 4
      [] OTHER -> 0

\* whether decode_utf8 returns Ok
RECURSIVE IsUtf8(_)
IsUtf8(t) ==
    IF t = <<>> THEN TRUE
    ELSE IF Utf8Width(t) = 0 THEN FALSE
    ELSE IsUtf8(Drop(t, Utf8Width(t)))

\* str::split_once(':')
split_once(t, c) ==
    IF \E i \in 1..Len(t) : t[i] = c
    THEN Some(<<SubSeq(t, 1, (CHOOSE i \in 1..Len(t) :
                                  t[i] = c /\ \A j \in 1..(i - 1) : t[j] # c) - 1),
                Drop(t, CHOOSE i \in 1..Len(t) :
                            t[i] = c /\ \A j \in 1..(i - 1) : t[j] # c)>>)
    ELSE None

S_Unknown == <<85, 110, 107, 110, 111, 119, 110>>

\* lines 74-82: the record before the URL is read
add_url_start == TotpRecord(<<>>, "SHA1", DEFAULT_DIGITS, DEFAULT_STEP, None, None)

\* lines 95-110: "issuer:user" in the first segment names the issuer and the
\* user, and the record when -n was not given
add_url_named(label, name) ==
    IF split_once(label, 58) = None
    THEN [key |-> IF name = None THEN S_Unknown ELSE name[1],
          record |-> add_url_start]
    ELSE [key |-> IF name = None THEN split_once(label, 58)[1][1] ELSE name[1],
          record |-> [add_url_start EXCEPT !.issuer = Some(split_once(label, 58)[1][1]),
                                           !.username = Some(split_once(label, 58)[1][2])]]

\* lines 84-93
add_url_label(first, name) ==
    IF ~IsUtf8(percent_decode(first))
    THEN Err("UrlError", "url path contains invalid UTF-8 characters")
    ELSE Ok(add_url_named(percent_decode(first), name))

\* `?` on a parser, then the assignment to the field
SetField(record, field, parsed) ==
    IF ~IsOk(parsed) THEN parsed ELSE Ok([record EXCEPT ![field] = parsed.val])

\* one turn of the loop over query_pairs
add_url_pair(record, key, value) ==
    CASE key = "secret" -> SetField(record, "secret", parse_secret(value))
      [] key = "digits" -> SetField(record, "digits", parse_digits(value))
      [] key \in {"step", "period"} -> SetField(record, "step", parse_step(value))
      [] key = "algorithm" -> SetField(record, "algo", parse_algo(value))
      [] key = "issuer" ->
           IF IsUtf8(percent_decode(value))
           THEN Ok([record EXCEPT !.issuer = Some(percent_decode(value))])
           ELSE Err("UrlError", "issuer argument contains invalid UTF-8 characters")
      [] OTHER -> Ok(record)

RECURSIVE add_url_query(_, _)
add_url_query(record, query) ==
    IF query = <<>> \/ ~IsOk(record) THEN record
    ELSE add_url_query(add_url_pair(record.val, Head(query)[1], Head(query)[2]),
                       Tail(query))

\* the key and the record once the query is read
add_url_keyed(labelled, query) ==
    IF ~IsOk(labelled) THEN labelled
    ELSE IF ~IsOk(add_url_query(Ok(labelled.val.record), query))
    THEN add_url_query(Ok(labelled.val.record), query)
    ELSE Ok([key |-> labelled.val.key,
             record |-> add_url_query(Ok(labelled.val.record), query).val])

\* lines 59-144: the key and the record a URL gives, or the error
add_url_record(url, name) ==
    IF url.scheme # "otpauth"
    THEN Err("UrlError", "unknown scheme provided in url")
    ELSE IF url.domain = None THEN Err("UrlError", "no domain provided in url")
    ELSE IF url.domain[1] # "totp"
    THEN Err("UrlError", "unknown domain provided in url")
    ELSE add_url_keyed(add_url_label(url.first, name), url.query)

\* an insert that does not look at -v
add_url_insert_always(file, d, made, view_only, rng, order, flt) ==
    IF ~IsOk(made) THEN Returned(made, d, file)
    ELSE SaveOf([file EXCEPT !.records = DictInsert(@, made.val.key, made.val.record)],
                d, rng, order, flt)

\* lines 146-153: print, then insert and update_file unless -v was given
add_url_insert(file, d, made, view_only, rng, order, flt) ==
    IF ~IsOk(made) THEN Returned(made, d, file)
    ELSE IF view_only THEN Returned(Ok(<<>>), d, file)
    ELSE SaveOf([file EXCEPT !.records = DictInsert(@, made.val.key, made.val.record)],
                d, rng, order, flt)

\* add_url::run after the arguments; url is None without --url, else what
\* Url::parse returned
add_url_run(loaded, d, url, name, view_only, rng, order, flt) ==
    IF ~IsOk(loaded) THEN Stopped(loaded, d)
    ELSE IF url = None
    THEN Returned(Err("MissingArgument", "no otp argument supplied for add op"),
                  d, loaded.val)
    ELSE IF ~IsOk(url[1]) THEN Returned(url[1], d, loaded.val)
    ELSE add_url_insert(loaded.val, d, add_url_record(url[1].val, name), view_only,
                        rng, order, flt)

(***************************************************************************)
(* mac.rs, otp.rs: HMAC and the code string                                *)
(*                                                                         *)
(* The hmac, sha1 and sha3 crates are libraries: the digest is a stand-in  *)
(* of the right length, a deterministic function of algorithm, key and     *)
(* message.                                                                *)
(***************************************************************************)
DigestLen(algo) ==
    CASE algo = "SHA1" -> 20
      [] algo = "SHA256" -> 32
      [] algo = "SHA512" -> 64

DigestSeed(algo, secret, data) ==
    (7 * SumSeq(secret) + 3 * WSum(secret, 1) + Len(secret)
     + 13 * SumSeq(data) + 5 * WSum(data, 1) + DigestLen(algo)) % 256

DigestByte(seed, i) == (seed * (2 * i + 1) + 37 * i * i + 101) % 256

\* HMAC-SHA1 is a function the hmac and sha1 crates compute; for the secret
\* and the counters of RFC 4226, appendix D, the digests are the ones the RFC
\* prints
RfcSecret ==
    <<49, 50, 51, 52, 53, 54, 55, 56, 57, 48, 49, 50, 51, 52, 53, 54, 55, 56, 57, 48>>

RfcDigests ==
    (<<0, 0, 0, 0, 0, 0, 0, 0>> :>
        <<204, 147, 207, 24, 80, 141, 148, 147, 76, 100,
          182, 93, 139, 167, 102, 127, 183, 205, 228, 176>>)
    @@ (<<0, 0, 0, 0, 0, 0, 0, 1>> :>
        <<117, 164, 138, 25, 212, 203, 225, 0, 100, 78,
          138, 193, 57, 126, 234, 116, 122, 45, 51, 171>>)
    @@ (<<0, 0, 0, 0, 0, 0, 0, 2>> :>
        <<11, 172, 183, 250, 8, 47, 239, 48, 120, 34,
          17, 147, 139, 193, 197, 231, 4, 22, 255, 68>>)
    @@ (<<0, 0, 0, 0, 0, 0, 0, 3>> :>
        <<102, 194, 130, 39, 208, 58, 45, 85, 41, 38,
          47, 240, 22, 161, 230, 239, 118, 85, 126, 206>>)

\* mac::one_off_sha1 / one_off_sha256 / one_off_sha512: Hmac::new_from_slice
\* takes a key of any length, so the InvalidKeyLength error never occurs
mac_one_off(algo, secret, data) ==
    IF algo = "SHA1" /\ secret = RfcSecret /\ data \in DOMAIN RfcDigests
    THEN Ok(RfcDigests[data])
    ELSE Ok([i \in 1..DigestLen(algo) |->
                DigestByte(DigestSeed(algo, secret, data), i)])

\* otp::one_off
one_off(algo, secret, data) == mac_one_off(algo, secret, data)

\* a padding that also cuts a longer string down to its last digits characters
pad_string_cutting(uint_string, digits) ==
    IF Len(uint_string) < digits
    THEN [i \in 1..(digits - Len(uint_string)) |-> 48] \o uint_string
    ELSE SubSeq(uint_string, Len(uint_string) - digits + 1, Len(uint_string))

\* pad_string: left-pads with '0', never truncates
pad_string(uint_string, digits) ==
    IF Len(uint_string) < digits
    THEN [i \in 1..(digits - Len(uint_string)) |-> 48] \o uint_string
    ELSE uint_string

\* an offset taken from the high four bits of the last byte
TruncOffset_high_bits(hash) == hash[Len(hash)] \div 16

\* an offset that counts from one
TruncOffset_from_one(hash) == (hash[Len(hash)] % 16) + 1

\* hash[hash.len() - 1] & 0xf
TruncOffset(hash) == hash[Len(hash)] % 16

\* the four bytes at the offset, the top bit of the first one masked off
TruncBinary(hash, offset) ==
    (hash[offset + 1] % 128) * Pow2(24) + hash[offset + 2] * Pow2(16)
    + hash[offset + 3] * Pow2(8) + hash[offset + 4]

(***************************************************************************)
(* u64 arithmetic for 10u64.pow(digits).  A u64 is four 16-bit limbs, least *)
(* significant first, with a flag telling whether the true value has left  *)
(* the 64 bits.                                                            *)
(***************************************************************************)
LIMB == 65536

U64(n) == [limbs |-> <<n % LIMB, (n \div LIMB) % LIMB, 0, 0>>, overflow |-> FALSE]

Mul10Carry(l, c) == (l * 10 + c) \div LIMB
Mul10Limb(l, c) == (l * 10 + c) % LIMB

\* x * 10 modulo 2^64; overflow once a carry leaves the top limb
Mul10(x) ==
    LET l == x.limbs
        c1 == Mul10Carry(l[1], 0)
        c2 == Mul10Carry(l[2], c1)
        c3 == Mul10Carry(l[3], c2)
        c4 == Mul10Carry(l[4], c3)
    IN [limbs |-> <<Mul10Limb(l[1], 0), Mul10Limb(l[2], c1),
                    Mul10Limb(l[3], c2), Mul10Limb(l[4], c3)>>,
        overflow |-> x.overflow \/ c4 > 0]

RECURSIVE Pow10Steps(_, _)
Pow10Steps(x, n) ==
    IF n = 0 THEN x
    ELSE LET y == Mul10(x) IN
         IF y.overflow \/ n > 0 THEN Pow10Steps(y, n - 1) ELSE y

\* 10u64.pow(digits): 10^digits modulo 2^64.  From 10^64 on the value is 0
\* modulo 2^64 and stays 0, so 64 multiplications decide every exponent.
Pow10(digits) == Pow10Steps(U64(1), Min(digits, 64))

U64IsZero(x) == x.limbs = <<0, 0, 0, 0>>

\* binary % m for binary below 2^31
ModU64(binary, m) ==
    IF m.limbs[3] # 0 \/ m.limbs[4] # 0 \/ m.limbs[2] >= 32768 THEN binary
    ELSE binary % (m.limbs[1] + LIMB * m.limbs[2])

\* binary % 10u64.pow(digits) as the build computes it: with overflow checks
\* (debug) the multiplication panics, without them (release) it wraps, and a
\* wrapped value of 0 makes the remainder panic
CodeValue(binary, digits, build) ==
    IF Pow10(digits).overflow /\ build = "debug"
    THEN Panic("attempt to multiply with overflow")
    ELSE IF U64IsZero(Pow10(digits))
    THEN Panic("attempt to calculate the remainder with a divisor of zero")
    ELSE Ok(ModU64(binary, Pow10(digits)))

\* the decimal string as to_string returns it, not padded
CodeString_unpadded(value, digits) ==
    IF ~IsOk(value) THEN value ELSE Ok(to_string(value.val))

\* to_string, then pad_string
CodeString(value, digits) ==
    IF ~IsOk(value) THEN value ELSE Ok(pad_string(to_string(value.val), digits))

\* the body of generate_integer_string after one_off(..).unwrap()
CodeOfHash(hash, digits, build) ==
    IF ~IsOk(hash) THEN Panic("unwrap on an Err value")
    ELSE CodeString(CodeValue(TruncBinary(hash.val, TruncOffset(hash.val)), digits, build),
                    digits)

\* generate_integer_string: the code, or a panic; it returns no error value
generate_integer_string(algorithm, secret, digits, data, build) ==
    CodeOfHash(one_off(algorithm, secret, data), digits, build)

(***************************************************************************)
(* util.rs, print.rs: the clock and print_totp_code                        *)
(***************************************************************************)
\* util::unix_epoch_sec_now: None when the clock is before the epoch
unix_epoch_sec_now(clock) == IF clock < 0 THEN None ELSE Some(clock)

\* u64::to_be_bytes for a value below 2^31
to_be_bytes(n) ==
    <<0, 0, 0, 0, (n \div Pow2(24)) % 256, (n \div Pow2(16)) % 256,
      (n \div Pow2(8)) % 256, n % 256>>

\* otp::_hotp: the counter as eight big-endian bytes, under SHA1
_hotp(secret, digits, counter, build) ==
    generate_integer_string("SHA1", secret, digits, to_be_bytes(counter), build)

\* a counter that is the clock reading itself
CounterOf_seconds(now, step) == now

\* now / record.step
CounterOf(now, step) == now \div step

\* seconds left that reach zero at the end of a window
TimeLeft_from_zero(now, step) == step - 1 - (now % step)

\* record.step - (now % record.step)
TimeLeft(now, step) == step - (now % step)

\* what print_totp_code writes: the code, the counter bytes it was made
\* from and the seconds left
PrintedCode(code, data, left) ==
    IF ~IsOk(code) THEN code
    ELSE Ok([code |-> code.val, data |-> data, left |-> left])

\* print_totp_code after the clock was read
PrintAt(record, now, build) ==
    IF record.step = 0 THEN Panic("attempt to divide by zero")
    ELSE PrintedCode(
           generate_integer_string(record.algo, record.secret, record.digits,
                                   to_be_bytes(CounterOf(now, record.step)), build),
           to_be_bytes(CounterOf(now, record.step)),
           TimeLeft(now, record.step))

\* print_totp_code: unix_epoch_sec_now().unwrap(), then the code
print_totp_code(record, clock, build) ==
    IF unix_epoch_sec_now(clock) = None
    THEN Panic("unwrap on a None value")
    ELSE PrintAt(record, unix_epoch_sec_now(clock)[1], build)

(***************************************************************************)
(* ops/add.rs, ops/edit.rs: the loop over the arguments                    *)
(*                                                                         *)
(* The arguments after the operation are flags, each followed by its       *)
(* value; a flag at the end of the line has the value None.  -f names the  *)
(* one path of the model.                                                  *)
(***************************************************************************)
NoFields ==
    [name |-> None, secret |-> None, algo |-> None, digits |-> None,
     step |-> None, issuer |-> None, username |-> None]

\* `?` on get_arg_value and on the parser, then Some(value)
SetOption(fields, field, what, value, parsed) ==
    IF value = None THEN Err("MissingArgument", "missing " \o what \o " argument value")
    ELSE IF ~IsOk(parsed) THEN parsed
    ELSE Ok([fields EXCEPT ![field] = Some(parsed.val)])

Given(value) == IF value = None THEN <<>> ELSE value[1]

\* one turn of the loop of add::run and edit::run
field_arg(fields, flag, value) ==
    CASE flag \in {"-n", "--name"} ->
           SetOption(fields, "name", "name", value, Ok(Given(value)))
      [] flag \in {"-f", "--file"} ->
           IF value = None THEN Err("MissingArgument", "missing file argument value")
           ELSE Ok(fields)
      [] flag \in {"-s", "--secret"} ->
           SetOption(fields, "secret", "secret", value, parse_secret(Given(value)))
      [] flag \in {"-a", "--algo"} ->
           SetOption(fields, "algo", "algo", value, parse_algo(Given(value)))
      [] flag \in {"-d", "--digits"} ->
           SetOption(fields, "digits", "digits", value, parse_digits(Given(value)))
      [] flag \in {"-t", "--step", "-p", "--period"} ->
           SetOption(fields, "step", "step/period", value, parse_step(Given(value)))
      [] flag \in {"-i", "--issuer"} ->
           SetOption(fields, "issuer", "issuer", value, Ok(Given(value)))
      [] flag \in {"-u", "--username"} ->
           SetOption(fields, "username", "username", value, Ok(Given(value)))
      [] OTHER -> Err("InvalidArgument", "given invalid argument. ")

RECURSIVE field_args(_, _)
field_args(fields, args) ==
    IF args = <<>> \/ ~IsOk(fields) THEN fields
    ELSE field_args(field_arg(fields.val, Head(args)[1], Head(args)[2]), Tail(args))

unwrap_or(option, default) == IF option = None THEN default ELSE option[1]

\* add::run lines 90-97
add_record(f) ==
    TotpRecord(f.secret[1], unwrap_or(f.algo, "SHA1"), unwrap_or(f.digits, 6),
               unwrap_or(f.step, 30), f.issuer, f.username)

\* add::run from the arguments on: name and secret are required before the
\* file is opened
add_args_run(fields, loaded, d, rng, order, flt) ==
    IF ~IsOk(fields) THEN Stopped(fields, d)
    ELSE IF fields.val.name = None
    THEN Stopped(Err("MissingArgument", "no name was specified"), d)
    ELSE IF fields.val.secret = None
    THEN Stopped(Err("MissingArgument", "no secret was specified"), d)
    ELSE add_run(loaded, d, fields.val.name[1], add_record(fields.val), rng, order, flt)

(***************************************************************************)
(* ops/add_gauth.rs                                                        *)
(***************************************************************************)
\* add_gauth::run after the loop: the secret is required before the file is
\* opened; name is "Unknown" unless -n was given
add_gauth_run(loaded, d, name, secret, rng, order, flt) ==
    IF secret = None THEN Stopped(Err("MissingArgument", "secret was not specified"), d)
    ELSE add_run(loaded, d, unwrap_or(name, S_Unknown),
                 TotpRecord(secret[1], "SHA1", 6, 30, None, None), rng, order, flt)

(***************************************************************************)
(* ops/rename.rs                                                           *)
(***************************************************************************)
\* lines 52-57: remove the original, insert under the new name, update_file
rename_move(file, d, original, renamed, rng, order, flt) ==
    IF original \notin DOMAIN file.records
    THEN Returned(name_not_found(original), d, file)
    ELSE SaveOf([file EXCEPT !.records = DictInsert(DictRemove(@, original), renamed,
                                                    file.records[original])],
                d, rng, order, flt)

\* rename::run after the loop
rename_run(loaded, d, original, renamed, rng, order, flt) ==
    IF ~IsOk(loaded) THEN Stopped(loaded, d)
    ELSE IF original = None
    THEN Returned(Err("MissingArgument", "original was not specified"), d, loaded.val)
    ELSE IF renamed = None
    THEN Returned(Err("MissingArgument", "renamed was not specified"), d, loaded.val)
    ELSE rename_move(loaded.val, d, original[1], renamed[1], rng, order, flt)

(***************************************************************************)
(* ops/edit.rs                                                             *)
(***************************************************************************)
\* an edit that builds the record anew, as add does: a field whose flag was
\* not given gets its default
edit_record_anew(record, f) ==
    TotpRecord(unwrap_or(f.secret, record.secret), unwrap_or(f.algo, "SHA1"),
               unwrap_or(f.digits, 6), unwrap_or(f.step, 30), f.issuer, f.username)

\* lines 84-106: a field is assigned when its flag was given
edit_record(record, f) ==
    TotpRecord(unwrap_or(f.secret, record.secret), unwrap_or(f.algo, record.algo),
               unwrap_or(f.digits, record.digits), unwrap_or(f.step, record.step),
               IF f.issuer # None THEN f.issuer ELSE record.issuer,
               IF f.username # None THEN f.username ELSE record.username)

\* lines 78-113
edit_named(file, d, f, rng, order, flt) ==
    IF f.name = None
    THEN Returned(Err("MissingArgument", "name was not specified"), d, file)
    ELSE IF f.name[1] \notin DOMAIN file.records
    THEN Returned(name_not_found(f.name[1]), d, file)
    ELSE SaveOf([file EXCEPT !.records[f.name[1]] = edit_record(@, f)],
                d, rng, order, flt)

\* edit::run from the arguments on
edit_run(fields, loaded, d, rng, order, flt) ==
    IF ~IsOk(fields) THEN Stopped(fields, d)
    ELSE IF ~IsOk(loaded) THEN Stopped(loaded, d)
    ELSE edit_named(loaded.val, d, fields.val, rng, order, flt)

(***************************************************************************)
(* ops/view.rs, ops/codes.rs                                               *)
(***************************************************************************)
\* a run that prints: what it printed beside what it did
Shown(ran, printed) ==
    [saved |-> ran.saved, file |-> ran.file, updates |-> ran.updates,
     printed |-> printed]

\* print_records_list: every record, in the order of the HashMap
RECURSIVE print_records_list(_, _, _, _)
print_records_list(records, order, clock, build) ==
    IF order = <<>> THEN <<>>
    ELSE IF IsPanic(print_totp_code(records[Head(order)], clock, build))
    THEN <<<<Head(order), print_totp_code(records[Head(order)], clock, build)>>>>
    ELSE <<<<Head(order), print_totp_code(records[Head(order)], clock, build)>>>>
         \o print_records_list(records, Tail(order), clock, build)

\* view::run after the loop: the named record, or every record
view_run(loaded, d, name, order) ==
    IF ~IsOk(loaded) THEN Shown(Stopped(loaded, d), <<>>)
    ELSE IF name = None
    THEN Shown(Returned(Ok(<<>>), d, loaded.val),
               [i \in 1..Len(order) |-> <<order[i], loaded.val.records[order[i]]>>])
    ELSE IF name[1] \notin DOMAIN loaded.val.records
    THEN Shown(Returned(name_not_found(name[1]), d, loaded.val), <<>>)
    ELSE Shown(Returned(Ok(<<>>), d, loaded.val),
               <<<<name[1], loaded.val.records[name[1]]>>>>)

\* the run ends with the panic of the code it could not print
codes_shown(file, d, printed) ==
    Shown(Returned(IF printed # <<>> /\ IsPanic(printed[Len(printed)][2])
                   THEN printed[Len(printed)][2] ELSE Ok(<<>>), d, file),
          printed)

\* codes::run after the loop, without -w: the code of the named record, or
\* of every record; with -w the same pass is repeated every second
codes_run(loaded, d, name, order, clock, build) ==
    IF ~IsOk(loaded) THEN Shown(Stopped(loaded, d), <<>>)
    ELSE IF name = None
    THEN codes_shown(loaded.val, d,
                     print_records_list(loaded.val.records, order, clock, build))
    ELSE IF name[1] \notin DOMAIN loaded.val.records
    THEN Shown(Returned(name_not_found(name[1]), d, loaded.val), <<>>)
    ELSE codes_shown(loaded.val, d,
                     print_records_list(loaded.val.records, <<name[1]>>, clock, build))

(***************************************************************************)
(* Inputs of the model                                                     *)
(***************************************************************************)
NameA == <<97>>
NameB == <<98>>
Names == {NameA, NameB}

RecA == TotpRecord(<<72, 105>>, "SHA1", 6, 30, None, None)
RecB == TotpRecord(<<>>, "SHA512", 8, 60, Some(<<120>>), Some(<<122>>))

\* --json texts: only the secret (RecA once the defaults are filled in),
\* every field (RecB as serde_json prints it), and a record without secret
J_secret_only ==
    LBRACE \o JsonField(S_secret, LBRACKET \o JsonNums(RecA.secret) \o RBRACKET)
    \o RBRACE
J_every_field == JsonRecord(RecB)
J_no_secret ==
    LBRACE \o JsonField(S_algo, JsonStr(S_SHA256)) \o COMMA
    \o JsonField(S_digits, to_string(8)) \o RBRACE

\* the arguments of an add-json run
JsonArgs(json, name, view) == [json |-> json, name |-> name, view |-> view]

JsonRuns ==
    {JsonArgs(Some(J_secret_only), Some(NameA), FALSE),
     JsonArgs(Some(J_every_field), Some(NameB), FALSE),
     JsonArgs(Some(J_no_secret), Some(NameA), FALSE),
     JsonArgs(None, Some(NameA), FALSE),
     JsonArgs(Some(J_secret_only), None, FALSE),
     JsonArgs(Some(J_secret_only), Some(NameB), TRUE)}

\* what the user types at the "secret: " prompt; read_line keeps the newline
Passphrases == {<<112, 119, 10>>, <<112, 122, 10>>}
Keys == {make_key(p).val : p \in Passphrases}

\* the operating system's random source: any bytes, or a failure
MaxNonceSeed == 1
RngOutcomes == {Ok(NonceOf(s)) : s \in 0..MaxNonceSeed} \cup {Err("RandError", "")}

(***************************************************************************)
(* State                                                                   *)
(***************************************************************************)
VARIABLES
    \* codec: one TotpFile::encrypt call, what then happens to its blob,
    \* and one TotpFile::decrypt call
    sealKey,      \* the key given to encrypt
    sealRecords,  \* the records given to encrypt
    sealOrder,    \* the HashMap iteration order during to_vec
    sealRng,      \* the outcome of the OsRng draw
    sealed,       \* what encrypt returned
    blob,         \* the bytes as stored
    blobState,    \* "none", "sealed", "flipped" (one bit changed), "cut"
    openKey,      \* the key given to decrypt
    opened,       \* what decrypt returned
    openAead,     \* whether decrypt called decrypt_data
    \* codes: one record, the wall clock and what print_totp_code printed
    otpRecord,    \* the record whose code is printed
    build,        \* "debug" (overflow checks) or "release" (wrapping)
    clock,        \* seconds since the epoch, negative before it
    ticks,        \* seconds passed since the start
    firstPrint,   \* the first print_totp_code call: when, and its outcome
    lastPrint,    \* the latest print_totp_code call
    \* file sessions: one path, and the runs of new, add and drop on it
    fileExt,      \* the extension of the path
    disk,         \* the file at the path
    before,       \* the file as it was when the latest run began
    lastOp,       \* the latest operation run
    ran,          \* what that run did (see Ran and Saved)
    used,         \* every <<key, nonce>> that encrypt_data has been given
    reused,       \* whether some pair was given to encrypt_data twice
    draws,        \* how many nonces the OsRng has handed out
    ops,          \* how many operations have run
    given,        \* the arguments of the latest run, when it was add-json
    prompted,     \* what the latest run read at its "secret: " prompts
    \* calls: functions called on their own with chosen arguments
    call          \* the latest call: the function, its arguments, its results

codecVars ==
    <<sealKey, sealRecords, sealOrder, sealRng, sealed, blob, blobState,
      openKey, opened, openAead>>

otpVars == <<otpRecord, build, clock, ticks, firstPrint, lastPrint>>

fileVars ==
    <<fileExt, disk, before, lastOp, ran, used, reused, draws, ops, given,
      prompted>>

callVars == <<call>>

vars == <<codecVars, otpVars, fileVars, callVars>>

NoPrint == [at |-> 0, out |-> NoResult]

NoCall == [fn |-> "none"]

\* the codec is not in use
CodecIdle ==
    /\ sealKey = <<>>
    /\ sealRecords = EmptyDict
    /\ sealOrder = <<>>
    /\ sealRng = NoResult
    /\ sealed = NoResult
    /\ blob = <<>>
    /\ blobState = "none"
    /\ openKey = <<>>
    /\ opened = NoResult
    /\ openAead = FALSE

\* no code is being printed
OtpIdle ==
    /\ otpRecord = RecA
    /\ build = "release"
    /\ clock = 0
    /\ ticks = 0
    /\ firstPrint = NoPrint
    /\ lastPrint = NoPrint

\* no operation has run on a file
FileIdle ==
    /\ fileExt = None
    /\ disk = NoFile
    /\ before = NoFile
    /\ lastOp = "none"
    /\ ran = Stopped(NoResult, NoFile)
    /\ used = {}
    /\ reused = FALSE
    /\ draws = 0
    /\ ops = 0
    /\ given = None
    /\ prompted = <<>>

\* no function has been called on its own
CallIdle == call = NoCall

(***************************************************************************)
(* Codec specification: encrypt, corrupt, decrypt                          *)
(***************************************************************************)
CodecDicts ==
    {EmptyDict, (NameA :> RecA), (NameA :> RecA) @@ (NameB :> RecB)}

FlipBit(b, j) == IF BitOf(b, j) = 1 THEN b - Pow2(j) ELSE b + Pow2(j)

CodecInit ==
    /\ sealKey \in Keys
    /\ sealRecords \in CodecDicts
    /\ sealOrder \in Orders(DOMAIN sealRecords)
    /\ sealRng \in RngOutcomes
    /\ sealed = NoResult
    /\ blob = <<>>
    /\ blobState = "none"
    /\ openKey = <<>>
    /\ opened = NoResult
    /\ openAead = FALSE
    /\ OtpIdle
    /\ FileIdle
    /\ CallIdle

\* TotpFile::encrypt(&key, &records)
CodecEncrypt ==
    /\ blobState = "none"
    /\ sealed = NoResult
    /\ sealed' = TotpFile_encrypt(sealKey, sealRecords, sealRng, sealOrder)
    /\ blob' = IF IsOk(sealed') THEN sealed'.val ELSE blob
    /\ blobState' = IF IsOk(sealed') THEN "sealed" ELSE blobState
    /\ UNCHANGED <<sealKey, sealRecords, sealOrder, sealRng, openKey, opened, openAead>>
    /\ UNCHANGED <<otpVars, fileVars, callVars>>

\* the stored bytes are damaged: bit j of byte i changes
CodecFlip(i, j) ==
    /\ blobState = "sealed"
    /\ opened = NoResult
    /\ blob' = [blob EXCEPT ![i] = FlipBit(@, j)]
    /\ blobState' = "flipped"
    /\ UNCHANGED <<sealKey, sealRecords, sealOrder, sealRng, sealed, openKey, opened, openAead>>
    /\ UNCHANGED <<otpVars, fileVars, callVars>>

\* the stored bytes are cut short: only the first n remain
CodecCut(n) ==
    /\ blobState = "sealed"
    /\ opened = NoResult
    /\ blob' = SubSeq(blob, 1, n)
    /\ blobState' = "cut"
    /\ UNCHANGED <<sealKey, sealRecords, sealOrder, sealRng, sealed, openKey, opened, openAead>>
    /\ UNCHANGED <<otpVars, fileVars, callVars>>

\* TotpFile::decrypt(&key, data)
CodecDecrypt(k) ==
    /\ blobState # "none"
    /\ opened = NoResult
    /\ opened' = TotpFile_decrypt(k, blob)
    /\ openAead' = ReachesAead(blob)
    /\ openKey' = k
    /\ UNCHANGED <<sealKey, sealRecords, sealOrder, sealRng, sealed, blob, blobState>>
    /\ UNCHANGED <<otpVars, fileVars, callVars>>

\* the bytes and bits that can be damaged, the lengths a cut can leave
FlipPositions == IF blobState = "sealed" /\ opened = NoResult THEN 1..Len(blob) ELSE {}
CutLengths == IF blobState = "sealed" /\ opened = NoResult THEN 0..(Len(blob) - 1) ELSE {}

CodecNext ==
    \/ CodecEncrypt
    \/ \E i \in FlipPositions, j \in 0..7 : CodecFlip(i, j)
    \/ \E n \in CutLengths : CodecCut(n)
    \/ \E k \in Keys : CodecDecrypt(k)

SpecCodec == CodecInit /\ [][CodecNext]_vars

(***************************************************************************)
(* Codes specification: print_totp_code under a running clock              *)
(***************************************************************************)
MaxTicks == 3

OtpDigits == {0, 1, 6, 8, 9, 10, 19, 20, 63, 64, IntMax}
OtpSteps == {0, 1, 30, IntMax}

\* records a store can hold: RecA with one field varied, and RecB
OtpRecords ==
    {[RecA EXCEPT !.digits = d] : d \in OtpDigits}
    \cup {[RecA EXCEPT !.step = s] : s \in OtpSteps}
    \cup {[RecA EXCEPT !.algo = a] : a \in Algo}
    \cup {[RecA EXCEPT !.secret = <<>>], RecB}

\* clock readings at the start: before the epoch, at it, near the end of a
\* 30 s and of a 60 s window, and a present-day one
OtpStarts == {-1, 0, 28, 58, 1700000009}

OtpInit ==
    /\ otpRecord \in OtpRecords
    /\ build \in {"debug", "release"}
    /\ clock \in OtpStarts
    /\ ticks = 0
    /\ firstPrint = NoPrint
    /\ lastPrint = NoPrint
    /\ CodecIdle
    /\ FileIdle
    /\ CallIdle

\* a second passes (the sleep of the watch loop, or time between two runs)
OtpTick ==
    /\ ticks < MaxTicks
    /\ clock' = clock + 1
    /\ ticks' = ticks + 1
    /\ UNCHANGED <<otpRecord, build, firstPrint, lastPrint>>
    /\ UNCHANGED <<codecVars, fileVars, callVars>>

\* print::print_totp_code(&name, record): codes, or one watch iteration
OtpPrint ==
    /\ lastPrint' = [at |-> clock, out |-> print_totp_code(otpRecord, clock, build)]
    /\ firstPrint' = IF firstPrint = NoPrint THEN lastPrint' ELSE firstPrint
    /\ UNCHANGED <<otpRecord, build, clock, ticks>>
    /\ UNCHANGED <<codecVars, fileVars, callVars>>

OtpNext == OtpTick \/ OtpPrint

SpecOtp == OtpInit /\ [][OtpNext]_vars

(***************************************************************************)
(* File sessions: runs of new, add, drop and add-json on one path          *)
(***************************************************************************)
MaxOps == 3

\* a store kept as plain text is started by hand with an empty mapping; an
\* encrypted one is started by new
InitialDisk(ext) ==
    CASE ext = S_json -> FileOf(S_empty_map)
      [] ext = S_yaml -> FileOf(S_empty_map \o LF)
      [] OTHER -> NoFile

Init ==
    /\ fileExt \in {Some(S_json), Some(S_yaml), Some(S_totp)}
    /\ disk = InitialDisk(fileExt[1])
    /\ before = disk
    /\ lastOp = "none"
    /\ ran = Stopped(NoResult, disk)
    /\ used = {}
    /\ reused = FALSE
    /\ draws = 0
    /\ ops = 0
    /\ given = None
    /\ prompted = <<>>
    /\ CodecIdle
    /\ OtpIdle
    /\ CallIdle

IsTotpPath == fileExt # None /\ to_ascii_lowercase(fileExt[1]) = S_totp

\* what the user types at the prompt, when the path makes the run prompt
Typed == IF IsTotpPath THEN {Ok(p) : p \in Passphrases} ELSE {NoResult}

\* the next draw of the OsRng, for a run that gets to update_file on an
\* encrypted store: bytes it has not handed out before, or an error
Draws(reaches) ==
    IF reaches /\ IsTotpPath THEN {Ok(NonceOf(draws)), Err("RandError", "")}
    ELSE {NoResult}

\* the faults that can strike a run that gets to the write
FaultsAt(reaches, rng) == IF reaches /\ ~IsErr(rng) THEN Faults ELSE {NoFault}

\* the orders in which the HashMap may iterate over the names
OrdersOf(reaches, names) == IF reaches THEN Orders(names) ELSE {<<>>}

AddRecords == {RecA, RecB}

\* the run is over: the file, the history of encrypt_data and the counters
FinishWith(op, r, args) ==
    /\ given' = args
    /\ ops' = ops + 1
    /\ lastOp' = op
    /\ ran' = r
    /\ before' = disk
    /\ disk' = r.saved.disk
    /\ used' = IF r.saved.sealing = None THEN used ELSE used \cup {r.saved.sealing[1]}
    /\ reused' = (reused \/ (r.saved.sealing # None /\ r.saved.sealing[1] \in used))
    /\ draws' = IF IsOk(r.saved.rng) THEN draws + 1 ELSE draws
    /\ UNCHANGED fileExt
    /\ UNCHANGED <<codecVars, otpVars, callVars>>

Finish(op, r) == FinishWith(op, r, None)

\* cli::get_input("secret") is called where typed is read: once in
\* from_path for an encrypted store, once in new::run for a new file
Prompted(typed) == IF typed = NoResult THEN <<>> ELSE <<typed>>

\* totp new -n <name>
New(typed) ==
    /\ ops < MaxOps
    /\ IsTotpPath
    /\ prompted' = IF disk.exists THEN <<>> ELSE Prompted(typed)
    /\ \E rng \in Draws(~disk.exists) :
           \E flt \in FaultsAt(~disk.exists, rng) :
               Finish("new", new_run(disk, typed, rng, <<>>, flt))

AddLoaded(loaded, name, record) ==
    \E rng \in Draws(IsOk(loaded)) :
        \E flt \in FaultsAt(IsOk(loaded), rng),
           order \in OrdersOf(IsOk(loaded), DOMAIN loaded.val.records \cup {name}) :
            Finish("add", add_run(loaded, disk, name, record, rng, order, flt))

\* totp add -f <path> -n <name> -s <secret> ...
Add(typed) ==
    /\ ops < MaxOps
    /\ prompted' = Prompted(typed)
    /\ \E loaded \in {from_path(fileExt, disk, typed)} :
           \E name \in Names, record \in AddRecords : AddLoaded(loaded, name, record)

Holds(loaded, name) == IsOk(loaded) /\ name \in DOMAIN loaded.val.records

DropLoaded(loaded, name) ==
    \E rng \in Draws(Holds(loaded, name)) :
        \E flt \in FaultsAt(Holds(loaded, name), rng),
           order \in OrdersOf(Holds(loaded, name), DOMAIN loaded.val.records \ {name}) :
            Finish("drop", drop_run(loaded, disk, name, rng, order, flt))

\* totp drop -f <path> -n <name>
DropOp(typed) ==
    /\ ops < MaxOps
    /\ prompted' = Prompted(typed)
    /\ \E loaded \in {from_path(fileExt, disk, typed)} :
           \E name \in Names : DropLoaded(loaded, name)

\* whether an add-json run with these arguments gets to update_file
JsonSaves(loaded, a) ==
    /\ IsOk(loaded)
    /\ a.json # None
    /\ IsOk(from_str(a.json[1]))
    /\ a.name # None
    /\ ~a.view

AddJsonLoaded(loaded, a, names) ==
    \E rng \in Draws(JsonSaves(loaded, a)) :
        \E flt \in FaultsAt(JsonSaves(loaded, a), rng),
           order \in OrdersOf(JsonSaves(loaded, a), names) :
            FinishWith("add-json",
                       add_json_run(loaded, disk, a.json, a.name, a.view,
                                    rng, order, flt),
                       Some(a))

\* totp add-json -f <path> -n <name> --json <text> [-v]
AddJson(typed) ==
    /\ ops < MaxOps
    /\ prompted' = Prompted(typed)
    /\ \E loaded \in {from_path(fileExt, disk, typed)} :
           \E a \in JsonRuns :
               AddJsonLoaded(loaded, a,
                             IF JsonSaves(loaded, a)
                             THEN DOMAIN loaded.val.records \cup {a.name[1]} ELSE {})

Next ==
    \/ \E typed \in Typed : New(typed)
    \/ \E typed \in Typed : Add(typed)
    \/ \E typed \in Typed : DropOp(typed)
    \/ \E typed \in Typed : AddJson(typed)

Spec == Init /\ [][Next]_vars

(***************************************************************************)
(* Calls specification: functions of otp.rs, chacha.rs and types.rs called *)
(* on their own, each call with arguments drawn from the sets below        *)
(***************************************************************************)
Builds == {"debug", "release"}

\* the four bytes dynamic truncation reads: values 0, 82, 82 under a set top
\* bit, 999999, 1000000, the binary of RFC 4226's first vector, 10^9, 2^31 - 1
Quads ==
    {<<0, 0, 0, 0>>, <<0, 0, 0, 82>>, <<128, 0, 0, 82>>, <<0, 15, 66, 63>>,
     <<0, 15, 66, 64>>, <<76, 147, 207, 24>>, <<59, 154, 202, 0>>,
     <<255, 255, 255, 255>>}

\* a digest of len bytes whose last byte selects offset and that holds quad
\* there
HashWith(len, offset, quad) ==
    [i \in 1..len |->
        IF i = len THEN 160 + offset
        ELSE IF i > offset /\ i <= offset + 4 THEN quad[i - offset]
        ELSE (7 * i) % 256]

\* digests an HMAC can return: every length, the first and the last offset
CodeHashes ==
    {HashWith(DigestLen(a), o, q) : a \in Algo, o \in {0, 15}, q \in Quads}

CodeDigits == 0..10

PadTexts == {<<>>, <<48>>, <<56, 50>>, <<49, 50, 51, 52>>}

PadDigits == 0..5

\* a behaviour is one call: its arguments are chosen when it is made
CallsInit ==
    /\ call = NoCall
    /\ CodecIdle
    /\ OtpIdle
    /\ FileIdle

\* otp::generate_integer_string twice on one digest, as for one algo, secret
\* and counter with two digits values
CallCodes ==
    /\ call = NoCall
    /\ \E h \in CodeHashes, d1 \in CodeDigits, d2 \in CodeDigits, b \in Builds :
           call' = [fn |-> "generate_integer_string",
                    hash |-> h,
                    digits |-> <<d1, d2>>,
                    out |-> <<CodeOfHash(Ok(h), d1, b), CodeOfHash(Ok(h), d2, b)>>]
    /\ UNCHANGED <<codecVars, otpVars, fileVars>>

\* otp::pad_string
CallPad ==
    /\ call = NoCall
    /\ \E s \in PadTexts, d \in PadDigits :
           call' = [fn |-> "pad_string", text |-> s, digits |-> d,
                    out |-> pad_string(s, d)]
    /\ UNCHANGED <<codecVars, otpVars, fileVars>>

\* texts given for an algorithm: the three names, other letter cases, a
\* name cut short, padded with a space or continued, and other names
AlgoTexts ==
    {S_SHA1, S_SHA256, S_SHA512,
     <<115, 104, 97, 49>>, <<83, 104, 97, 50, 53, 54>>, <<>>, <<83, 72, 65>>,
     <<83, 72, 65, 49, 32>>, <<83, 72, 65, 45, 49>>, <<83, 72, 65, 53, 49, 50, 48>>,
     <<83, 72, 65, 51, 56, 52>>, <<77, 68, 53>>}

\* cli::parse_algo on a text of the command line
CallParseAlgo ==
    /\ call = NoCall
    /\ \E t \in AlgoTexts :
           call' = [fn |-> "parse_algo", text |-> t, tried |-> try_from_str(t),
                    out |-> parse_algo(t)]
    /\ UNCHANGED <<codecVars, otpVars, fileVars>>

\* Algo::as_str, the name read back, and a record with the algorithm
\* written by serde_json and read back
CallAsStr ==
    /\ call = NoCall
    /\ \E a \in Algo :
           call' = [fn |-> "as_str", algo |-> a, out |-> as_str(a),
                    back |-> try_from_str(as_str(a)),
                    parsed |-> parse_algo(as_str(a)),
                    json |-> from_str(JsonRecord([RecA EXCEPT !.algo = a]))]
    /\ UNCHANGED <<codecVars, otpVars, fileVars>>

\* passphrases: none, one byte, the typed lines of the sessions with and
\* without their newline, and one longer than a key
KeyTexts ==
    {<<>>, <<0>>, <<112, 119>>, [i \in 1..40 |-> 97 + (i % 26)]} \cup Passphrases

\* chacha::make_key twice on one passphrase
CallMakeKey ==
    /\ call = NoCall
    /\ \E p \in KeyTexts :
           call' = [fn |-> "make_key", secret |-> p, out |-> make_key(p),
                    again |-> make_key(p)]
    /\ UNCHANGED <<codecVars, otpVars, fileVars>>

\* path.extension(): none, the four known ones, other letter cases of them,
\* the empty one of a path ending in a dot, and unknown ones
PathExts ==
    {None}
    \cup {Some(e) : e \in {S_yaml, S_yml, S_json, S_totp,
                          <<89, 65, 77, 76>>, <<89, 109, 108>>,
                          <<74, 83, 79, 78>>, <<74, 115, 111, 110>>,
                          <<84, 79, 84, 80>>, <<116, 111, 84, 112>>,
                          <<>>, <<116, 120, 116>>, <<106, 115, 110>>,
                          <<116, 111, 116, 112, 50>>, <<121, 97, 109>>}}

\* files at the path: none, the empty mapping (JSON and YAML alike), one
\* record as JSON, as YAML and encrypted under the first passphrase
CallDisks ==
    {NoFile,
     FileOf(S_empty_map),
     FileOf(to_vec(NameA :> RecA, <<NameA>>)),
     FileOf(yaml_to_vec(NameA :> RecA, <<NameA>>)),
     FileOf(TotpFile_encrypt(make_key(<<112, 119, 10>>).val, NameA :> RecA,
                             Ok(NonceOf(0)), <<NameA>>).val)}

\* what get_input returns when it is called: a line, or the error of stdin
CallTyped == {Ok(p) : p \in Passphrases} \cup {Err("IoError", "")}

\* TotpFile::from_path on a path with the extension ext
CallFromPath ==
    /\ call = NoCall
    /\ \E ext \in PathExts, d \in CallDisks, typed \in CallTyped :
           call' = [fn |-> "from_path", ext |-> ext, disk |-> d, typed |-> typed,
                    out |-> from_path(ext, d, typed)]
    /\ UNCHANGED <<codecVars, otpVars, fileVars>>

\* a TotpFile of every type, with and without a key
CallFiles ==
    {TotpFile(t, r, k) : t \in {"YAML", "JSON", "TOTP"},
                         r \in {EmptyDict, NameA :> RecA},
                         k \in {None} \cup {Some(key) : key \in Keys}}

\* TotpFile::update_file on a TotpFile as it is
CallUpdateFile ==
    /\ call = NoCall
    /\ \E file \in CallFiles, d \in CallDisks :
           call' = [fn |-> "update_file", file |-> file, disk |-> d,
                    saved |-> update_file(file, d, Ok(NonceOf(1)),
                                          IF file.records = EmptyDict
                                          THEN <<>> ELSE <<NameA>>, NoFault)]
    /\ UNCHANGED <<codecVars, otpVars, fileVars>>

(***************************************************************************)
(* Runs of one operation on a store: from_path, the operation, update_file *)
(***************************************************************************)
NameC == <<99>>

TwoRecords == (NameA :> RecA) @@ (NameB :> RecB)

\* the stores a run opens: JSON stores of no, one and two records, a YAML
\* store, an encrypted store opened with its passphrase and with another,
\* and a path with no file
RunStores ==
    {[ext |-> Some(S_json), disk |-> FileOf(to_vec(EmptyDict, <<>>)),
      typed |-> NoResult],
     [ext |-> Some(S_json), disk |-> FileOf(to_vec(NameA :> RecA, <<NameA>>)),
      typed |-> NoResult]}
    \cup {[ext |-> Some(S_json), disk |-> FileOf(to_vec(TwoRecords, o)),
           typed |-> NoResult] : o \in Orders({NameA, NameB})}
    \cup {[ext |-> Some(S_yaml),
           disk |-> FileOf(yaml_to_vec(TwoRecords, <<NameA, NameB>>)),
           typed |-> NoResult]}
    \cup {[ext |-> Some(S_totp),
           disk |-> FileOf(TotpFile_encrypt(make_key(<<112, 119, 10>>).val,
                                            NameA :> RecA, Ok(NonceOf(0)),
                                            <<NameA>>).val),
           typed |-> Ok(p)] : p \in Passphrases}
    \cup {[ext |-> Some(S_json), disk |-> NoFile, typed |-> NoResult]}

Opened(s) == from_path(s.ext, s.disk, s.typed)

\* the orders in which update_file may meet the records of a run
RunOrders(r) ==
    IF r.updates = 0 THEN {<<>>} ELSE Orders(DOMAIN r.file[1].records)

RunRng == Ok(NonceOf(1))

S_JBUQ == <<74, 66, 85, 81, 61, 61, 61, 61>>

\* what Url::parse returned, for URLs with and without a label, with every
\* key of the query, with values no parser takes, and of other schemes and
\* domains
Urls ==
    {Url("otpauth", Some("totp"), f, q) :
        f \in {<<>>, <<120, 58, 122>>, <<97, 37, 51, 65, 98>>},
        q \in {<<>>,
               <<<<"secret", S_JBUQ>>>>,
               <<<<"secret", S_JBUQ>>, <<"issuer", <<105>>>>, <<"image", <<105>>>>>>,
               <<<<"secret", S_JBUQ>>, <<"digits", <<54>>>>>>,
               <<<<"secret", S_JBUQ>>, <<"period", <<54, 48>>>>>>,
               <<<<"secret", S_JBUQ>>, <<"step", <<51, 48>>>>>>,
               <<<<"secret", S_JBUQ>>, <<"algorithm", S_SHA512>>>>,
               <<<<"digits", <<55>>>>, <<"period", <<54, 48>>>>,
                 <<"algorithm", S_SHA256>>, <<"secret", S_JBUQ>>>>}}
    \cup {Url("otpauth", Some("totp"), <<>>, q) :
            q \in {<<<<"secret", <<74, 66, 85, 81>>>>>>,
                   <<<<"digits", <<115, 105, 120>>>>>>,
                   <<<<"step", <<>>>>>>,
                   <<<<"algorithm", <<115, 104, 97, 49>>>>>>,
                   <<<<"issuer", <<37, 70, 70>>>>>>}}
    \cup {Url("otpauth", Some("totp"), <<37, 70, 70>>, <<>>),
          Url("https", Some("totp"), <<>>, <<>>),
          Url("otpauth", Some("hotp"), <<>>, <<>>),
          Url("otpauth", None, <<>>, <<>>)}

UrlArgs == {None, Some(Err("UrlError", ""))} \cup {Some(Ok(u)) : u \in Urls}

\* totp add-url -f <path> [--url <url>] [-n <name>] [-v]
CallAddUrl ==
    /\ call = NoCall
    /\ \E s \in RunStores, url \in UrlArgs, name \in {None, Some(NameA)},
          view \in BOOLEAN :
           \E order \in RunOrders(add_url_run(Opened(s), s.disk, url, name, view,
                                              RunRng, <<>>, NoFault)) :
               call' = [fn |-> "add-url", store |-> s, loaded |-> Opened(s),
                        url |-> url, name |-> name, view |-> view,
                        ran |-> add_url_run(Opened(s), s.disk, url, name, view,
                                            RunRng, order, NoFault)]
    /\ UNCHANGED <<codecVars, otpVars, fileVars>>

\* the names a run may be given: none, the two of the stores and a third
RunNames == {None, Some(NameA), Some(NameB), Some(NameC)}

\* totp rename -f <path> [--original <name>] [--renamed <name>]
CallRename ==
    /\ call = NoCall
    /\ \E s \in RunStores, original \in RunNames, renamed \in RunNames :
           \E order \in RunOrders(rename_run(Opened(s), s.disk, original, renamed,
                                             RunRng, <<>>, NoFault)) :
               call' = [fn |-> "rename", store |-> s, loaded |-> Opened(s),
                        original |-> original, renamed |-> renamed,
                        ran |-> rename_run(Opened(s), s.disk, original, renamed,
                                           RunRng, order, NoFault)]
    /\ UNCHANGED <<codecVars, otpVars, fileVars>>

\* argument lines of add and edit: no flag, the name alone, the name with
\* one field, with several and with every field, values no parser takes, a
\* flag without its value and a flag neither operation has
ArgLines ==
    {<<>>,
     <<<<"-n", Some(NameA)>>>>,
     <<<<"-n", Some(NameA)>>, <<"-s", Some(S_JBUQ)>>>>,
     <<<<"--name", Some(NameB)>>, <<"--secret", Some(S_JBUQ)>>,
       <<"-a", Some(S_SHA256)>>, <<"-d", Some(<<56>>)>>, <<"-t", Some(<<54, 48>>)>>,
       <<"-i", Some(<<120>>)>>, <<"-u", Some(<<122>>)>>>>,
     <<<<"-n", Some(NameA)>>, <<"--digits", Some(<<55>>)>>>>,
     <<<<"-n", Some(NameA)>>, <<"--issuer", Some(<<105>>)>>>>,
     <<<<"-n", Some(NameB)>>, <<"-p", Some(<<52, 53>>)>>, <<"--username", Some(<<117>>)>>>>,
     <<<<"-n", Some(NameC)>>, <<"-s", Some(S_JBUQ)>>>>,
     <<<<"-f", Some(<<112>>)>>, <<"-n", Some(NameA)>>, <<"--algo", Some(S_SHA512)>>>>,
     <<<<"-n", Some(NameA)>>, <<"-s", Some(<<>>)>>, <<"--step", Some(<<43, 57>>)>>>>,
     <<<<"-n", Some(NameA)>>, <<"-d", Some(<<120>>)>>>>,
     <<<<"-n", Some(NameA)>>, <<"-s", None>>>>,
     <<<<"--bogus", Some(<<120>>)>>>>}

\* totp edit -f <path> -n <name> [fields]
CallEdit ==
    /\ call = NoCall
    /\ \E s \in RunStores, args \in ArgLines :
           \E order \in RunOrders(edit_run(field_args(Ok(NoFields), args), Opened(s),
                                           s.disk, RunRng, <<>>, NoFault)) :
               call' = [fn |-> "edit", store |-> s, loaded |-> Opened(s),
                        args |-> args, fields |-> field_args(Ok(NoFields), args),
                        ran |-> edit_run(field_args(Ok(NoFields), args), Opened(s),
                                         s.disk, RunRng, order, NoFault)]
    /\ UNCHANGED <<codecVars, otpVars, fileVars>>

\* totp add -f <path> -n <name> -s <secret> [fields]
CallAdd ==
    /\ call = NoCall
    /\ \E s \in RunStores, args \in ArgLines :
           \E order \in RunOrders(add_args_run(field_args(Ok(NoFields), args),
                                               Opened(s), s.disk, RunRng, <<>>,
                                               NoFault)) :
               call' = [fn |-> "add", store |-> s, loaded |-> Opened(s),
                        args |-> args, fields |-> field_args(Ok(NoFields), args),
                        ran |-> add_args_run(field_args(Ok(NoFields), args),
                                             Opened(s), s.disk, RunRng, order,
                                             NoFault)]
    /\ UNCHANGED <<codecVars, otpVars, fileVars>>

\* totp add-gauth -f <path> [-n <name>] [-s <secret>]
CallAddGauth ==
    /\ call = NoCall
    /\ \E s \in RunStores, name \in RunNames,
          secret \in {None, Some(<<72, 105>>), Some(<<>>)} :
           \E order \in RunOrders(add_gauth_run(Opened(s), s.disk, name, secret,
                                                RunRng, <<>>, NoFault)) :
               call' = [fn |-> "add-gauth", store |-> s, loaded |-> Opened(s),
                        name |-> name, secret |-> secret,
                        ran |-> add_gauth_run(Opened(s), s.disk, name, secret,
                                              RunRng, order, NoFault)]
    /\ UNCHANGED <<codecVars, otpVars, fileVars>>

\* totp add-json -f <path> [-n <name>] [--json <text>] [-v]
CallAddJson ==
    /\ call = NoCall
    /\ \E s \in RunStores, a \in JsonRuns :
           \E order \in RunOrders(add_json_run(Opened(s), s.disk, a.json, a.name,
                                               a.view, RunRng, <<>>, NoFault)) :
               call' = [fn |-> "add-json", store |-> s, loaded |-> Opened(s),
                        json |-> a.json, name |-> a.name, view |-> a.view,
                        ran |-> add_json_run(Opened(s), s.disk, a.json, a.name,
                                             a.view, RunRng, order, NoFault)]
    /\ UNCHANGED <<codecVars, otpVars, fileVars>>

\* totp drop -f <path> -n <name>
CallDrop ==
    /\ call = NoCall
    /\ \E s \in RunStores, name \in {NameA, NameB, NameC} :
           \E order \in RunOrders(drop_run(Opened(s), s.disk, name, RunRng, <<>>,
                                           NoFault)) :
               call' = [fn |-> "drop", store |-> s, loaded |-> Opened(s),
                        name |-> Some(name),
                        ran |-> drop_run(Opened(s), s.disk, name, RunRng, order,
                                         NoFault)]
    /\ UNCHANGED <<codecVars, otpVars, fileVars>>

\* the orders in which a run that prints every record may meet them
ShowOrders(loaded, name) ==
    IF IsOk(loaded) /\ name = None THEN Orders(DOMAIN loaded.val.records) ELSE {<<>>}

\* totp view -f <path> [-n <name>]
CallView ==
    /\ call = NoCall
    /\ \E s \in RunStores, name \in RunNames :
           \E order \in ShowOrders(Opened(s), name) :
               call' = [fn |-> "view", store |-> s, loaded |-> Opened(s),
                        name |-> name,
                        ran |-> view_run(Opened(s), s.disk, name, order)]
    /\ UNCHANGED <<codecVars, otpVars, fileVars>>

\* totp codes -f <path> [-n <name>], at a clock before and after the epoch
CallCodesRun ==
    /\ call = NoCall
    /\ \E s \in RunStores, name \in RunNames, now \in {0 - 1, 0, 59}, b \in Builds :
           \E order \in ShowOrders(Opened(s), name) :
               call' = [fn |-> "codes", store |-> s, loaded |-> Opened(s),
                        name |-> name, clock |-> now,
                        ran |-> codes_run(Opened(s), s.disk, name, order, now, b)]
    /\ UNCHANGED <<codecVars, otpVars, fileVars>>

\* digests for the truncation: every length and every offset, a last byte
\* with its high bits clear and set, the four bytes all zero, all ones and
\* under a set top bit; and digests as one_off returns them
OffsetHashes ==
    {[HashWith(DigestLen(a), o, q) EXCEPT ![DigestLen(a)] = hi * 16 + o] :
        a \in Algo, o \in 0..15, hi \in {0, 15},
        q \in {<<0, 0, 0, 0>>, <<128, 0, 0, 82>>, <<255, 255, 255, 255>>}}
    \cup {one_off(a, s, to_be_bytes(c)).val :
            a \in Algo, s \in {RfcSecret, <<72, 105>>, <<>>}, c \in 0..3}

\* generate_integer_string for six digits on each of these digests, with the
\* offset and the binary it took
CallCodesAt ==
    /\ call = NoCall
    /\ \E h \in OffsetHashes, b \in Builds :
           call' = [fn |-> "generate_integer_string", hash |-> h, digits |-> <<6, 6>>,
                    offset |-> TruncOffset(h),
                    binary |-> TruncBinary(h, TruncOffset(h)),
                    out |-> <<CodeOfHash(Ok(h), 6, b), CodeOfHash(Ok(h), 6, b)>>]
    /\ UNCHANGED <<codecVars, otpVars, fileVars>>

\* otp::_hotp on the secret of RFC 4226 and on a short one
CallHotp ==
    /\ call = NoCall
    /\ \E secret \in {RfcSecret, <<72, 105>>}, digits \in {6, 8}, counter \in 0..3,
          b \in Builds :
           call' = [fn |-> "_hotp", secret |-> secret, digits |-> digits,
                    counter |-> counter, out |-> _hotp(secret, digits, counter, b)]
    /\ UNCHANGED <<codecVars, otpVars, fileVars>>

CallsNext ==
    \/ CallFromPath
    \/ CallUpdateFile
    \/ CallCodes
    \/ CallMakeKey
    \/ CallPad
    \/ CallParseAlgo
    \/ CallAsStr
    \/ CallAddUrl
    \/ CallHotp
    \/ CallCodesAt
    \/ CallRename
    \/ CallEdit
    \/ CallAdd
    \/ CallAddGauth
    \/ CallAddJson
    \/ CallDrop
    \/ CallView
    \/ CallCodesRun

SpecCalls == CallsInit /\ [][CallsNext]_vars

(***************************************************************************)
(* Properties of single calls (SpecCalls)                                  *)
(***************************************************************************)
RECURSIVE Ten(_)
Ten(n) == IF n = 0 THEN 1 ELSE 10 * Ten(n - 1)

RECURSIVE DecimalValue(_, _)
DecimalValue(text, acc) ==
    IF text = <<>> THEN acc
    ELSE DecimalValue(Tail(text), 10 * acc + (Head(text) - 48))

AllDecimal(text) == \A i \in 1..Len(text) : text[i] >= 48 /\ text[i] <= 57

IsSuffix(tail, text) ==
    /\ Len(tail) <= Len(text)
    /\ SubSeq(text, Len(text) - Len(tail) + 1, Len(text)) = tail

CodesCalled == call.fn = "generate_integer_string"

\* the binary that dynamic truncation takes from the digest of the call
CallBinary == TruncBinary(call.hash, TruncOffset(call.hash))

\* the code of the given width that the call must have returned
WidthHolds(out, digits) ==
    /\ IsOk(out)
    /\ Len(out.val) = digits
    /\ AllDecimal(out.val)
    /\ DecimalValue(out.val, 0) = CallBinary % Ten(digits)

\* C12: for every digest and every digits in 1..9 the code has exactly
\* digits characters, all decimal digits, zero-padded on the left, and its
\* value is binary mod 10^digits; pad_string only ever adds '0' characters
\* in front of its input and removes none.
CodeWidth ==
    /\ CodesCalled
           => \A k \in 1..2 :
                  (call.digits[k] >= 1 /\ call.digits[k] <= 9)
                      => WidthHolds(call.out[k], call.digits[k])
    /\ call.fn = "pad_string"
           => /\ IsSuffix(call.text, call.out)
              /\ Len(call.out) = IF Len(call.text) < call.digits
                                 THEN call.digits ELSE Len(call.text)
              /\ \A i \in 1..(Len(call.out) - Len(call.text)) : call.out[i] = 48

\* the value 82 under a set top bit, printed with six digits as 000082
CodeWidthWitness ==
    /\ CodesCalled
    /\ CallBinary = 82
    /\ call.hash[1] = 128
    /\ call.digits[1] = 6
    /\ call.out[1] = Ok(<<48, 48, 48, 48, 56, 50>>)

\* C13: for one algo, secret and counter and 1 <= d1 <= d2 <= 9 the code of
\* d1 digits is the last d1 characters of the code of d2 digits, leading
\* zeros included.
CodeSuffix ==
    (/\ CodesCalled
     /\ 1 <= call.digits[1]
     /\ call.digits[1] <= call.digits[2]
     /\ call.digits[2] <= 9)
        => /\ IsOk(call.out[1]) /\ IsOk(call.out[2])
           /\ Len(call.out[1].val) = call.digits[1]
           /\ Len(call.out[2].val) = call.digits[2]
           /\ IsSuffix(call.out[1].val, call.out[2].val)

\* RFC 4226's first vector: 755224 with six digits, 84755224 with eight
CodeSuffixWitness ==
    /\ CodesCalled
    /\ call.digits = <<6, 8>>
    /\ call.out[1] = Ok(<<55, 53, 53, 50, 50, 52>>)
    /\ call.out[2] = Ok(<<56, 52, 55, 53, 53, 50, 50, 52>>)

\* C15: as_str gives exactly the name SHA1, SHA256 or SHA512 of its value
\* and try_from_str of that name gives the value back; every other text,
\* lower-case spellings included, is an error and never an algorithm.
AlgoRoundTrip ==
    /\ call.fn = "as_str"
           => /\ call.out = (CASE call.algo = "SHA1" -> <<83, 72, 65, 49>>
                               [] call.algo = "SHA256" -> <<83, 72, 65, 50, 53, 54>>
                               [] call.algo = "SHA512" -> <<83, 72, 65, 53, 49, 50>>)
              /\ call.back = Ok(call.algo)
              /\ call.parsed = Ok(call.algo)
              /\ IsOk(call.json) /\ call.json.val.algo = call.algo
    /\ call.fn = "parse_algo"
           => IF call.text \in {<<83, 72, 65, 49>>, <<83, 72, 65, 50, 53, 54>>,
                                <<83, 72, 65, 53, 49, 50>>}
              THEN IsOk(call.tried) /\ call.out = call.tried
                   /\ as_str(call.out.val) = call.text
              ELSE IsErr(call.tried) /\ IsErr(call.out)
                   /\ call.out.kind = "InvalidArgument"

\* the lower-case spelling sha1 was given and refused
AlgoRoundTripWitness ==
    /\ call.fn = "parse_algo"
    /\ call.text = <<115, 104, 97, 49>>
    /\ IsErr(call.out)

DomainOrder(records) == IF records = EmptyDict THEN <<>> ELSE <<NameA>>

\* the storage format of an extension, letter case set aside
FormatOf(ext) ==
    IF ext = None THEN "none"
    ELSE CASE to_ascii_lowercase(ext[1]) \in {<<121, 97, 109, 108>>, <<121, 109, 108>>}
                  -> "YAML"
           [] to_ascii_lowercase(ext[1]) = <<106, 115, 111, 110>> -> "JSON"
           [] to_ascii_lowercase(ext[1]) = <<116, 111, 116, 112>> -> "TOTP"
           [] OTHER -> "none"

\* what a load in the given format makes of the file and the typed line
LoadAs(format, d, typed) ==
    CASE format = "YAML" -> yaml_from_slice(d.bytes)
      [] format = "JSON" -> from_slice(d.bytes)
      [] format = "TOTP" -> TotpFile_decrypt(make_key(typed.val).val, d.bytes)

\* the bytes a successful save made are the store in the format of its type
MadeAs(file, made) ==
    CASE file.file_type = "YAML" -> made = yaml_to_vec(file.records, DomainOrder(file.records))
      [] file.file_type = "JSON" -> made = to_vec(file.records, DomainOrder(file.records))
      [] file.file_type = "TOTP"
             -> TotpFile_decrypt(file.key[1], made) = Ok(file.records)

\* C20: from_path takes the format from the extension alone, whatever its
\* letter case: yaml and yml are YAML, json is JSON, totp is encrypted, and
\* every other extension or none is InvalidExtension whatever the file holds
\* and whatever would be typed.  A loaded store has a key exactly when it is
\* encrypted.  update_file writes the format of the store's type, and for an
\* encrypted store without a key returns ChaChaError and writes nothing.
StorageByExtension ==
    /\ call.fn = "from_path"
           => /\ (FormatOf(call.ext) = "none")
                     <=> (IsErr(call.out) /\ call.out.kind = "InvalidExtension")
              /\ IsOk(call.out)
                     => /\ call.out.val.file_type = FormatOf(call.ext)
                        /\ (call.out.val.key # None) <=> (FormatOf(call.ext) = "TOTP")
                        /\ Ok(call.out.val.records)
                               = LoadAs(FormatOf(call.ext), call.disk, call.typed)
    /\ call.fn = "update_file"
           => /\ (call.file.file_type = "TOTP" /\ call.file.key = None)
                     => /\ call.saved.out = Err("ChaChaError", "missing key")
                        /\ call.saved.disk = call.disk
                        /\ call.saved.made = None
              /\ IsOk(call.saved.out)
                     => /\ call.saved.made # None
                        /\ MadeAs(call.file, call.saved.made[1])

\* a store at a path ending in .JSON was loaded as JSON
StorageByExtensionWitness ==
    /\ call.fn = "from_path"
    /\ call.ext = Some(<<74, 83, 79, 78>>)
    /\ IsOk(call.out)
    /\ call.out.val.file_type = "JSON"
    /\ call.out.val.records # EmptyDict

(***************************************************************************)
(* Properties of runs of one operation (SpecCalls)                         *)
(***************************************************************************)
\* the run of the call got as far as update_file
RunSaved == "ran" \in DOMAIN call /\ call.ran.updates = 1

\* the records the run opened with and the records it gave to update_file
RecordsBefore == call.loaded.val.records
RecordsAfter == call.ran.file[1].records

\* the names whose record the run put in the store or changed
Touched ==
    {n \in DOMAIN RecordsAfter :
        n \notin DOMAIN RecordsBefore \/ RecordsBefore[n] # RecordsAfter[n]}

\* the store as the next run opens it, given the same passphrase
Reloaded == from_path(call.store.ext, call.ran.saved.disk, call.store.typed)

\* an encrypted store is written whole: the next run finds the records the
\* run gave to update_file
SealedKept ==
    call.loaded.val.file_type = "TOTP" =>
        IsOk(Reloaded) /\ Reloaded.val.records = RecordsAfter

QueryKeys(url) == {url.query[i][1] : i \in 1..Len(url.query)}

\* an add-url run that saved a record made from a URL whose query sets none
\* of digits, step, period and algorithm
AddUrlBare ==
    /\ call.fn = "add-url"
    /\ RunSaved
    /\ QueryKeys(call.url[1].val) \cap {"digits", "step", "period", "algorithm"} = {}

\* C21: a record that add-url makes from a URL with no digits, step, period
\* or algorithm parameter has digits 6, step 30 and algorithm SHA1, the
\* defaults of add, add-gauth and deserialization
AddUrlDefaults ==
    AddUrlBare =>
        /\ Touched # {}
        /\ \A n \in Touched :
               /\ RecordsAfter[n].digits = default_digits
               /\ RecordsAfter[n].step = default_step
               /\ RecordsAfter[n].algo = default_algo

\* ASCII "94287082" and "84755224"
S_94287082 == <<57, 52, 50, 56, 55, 48, 56, 50>>
S_84755224 == <<56, 52, 55, 53, 53, 50, 50, 52>>

\* the call the vector is about: SHA1, the RFC's secret, eight digits and
\* eight zero bytes as the counter
RfcCall ==
    /\ call.fn = "_hotp"
    /\ call.secret = RfcSecret
    /\ call.digits = 8
    /\ call.counter = 0

\* C22 as stated: for SHA1, the secret "12345678901234567890", 8 digits and
\* counter 0 the generator returns "94287082"
RfcVectorAsStated == RfcCall => call.out = Ok(S_94287082)

\* C22 amended: for SHA1, the secret "12345678901234567890", 8 digits and
\* counter 0 the generator returns "84755224", the last eight digits of the
\* RFC's truncated value 1284755224
RfcVector == RfcCall => call.out = Ok(S_84755224)

RfcVectorWitness == RfcCall /\ IsOk(call.out)

\* a rename that got Ok from update_file
Renamed == call.fn = "rename" /\ RunSaved /\ IsOk(call.ran.saved.out)

\* C24: after a successful rename the store maps the new name to the record
\* that was under the original name, the original name is no longer a key
\* when the two differ, every other record is unchanged and the number of
\* records is unchanged
RenameMoves ==
    Renamed =>
        /\ call.renamed[1] \in DOMAIN RecordsAfter
        /\ RecordsAfter[call.renamed[1]] = RecordsBefore[call.original[1]]
        /\ call.original # call.renamed => call.original[1] \notin DOMAIN RecordsAfter
        /\ \A n \in (DOMAIN RecordsBefore) \ {call.original[1]} :
               n \in DOMAIN RecordsAfter /\ RecordsAfter[n] = RecordsBefore[n]
        /\ Cardinality(DOMAIN RecordsAfter) = Cardinality(DOMAIN RecordsBefore)

\* an edit that got as far as update_file
Edited == call.fn = "edit" /\ RunSaved

\* the flags of a field of a record
FlagsOf(field) ==
    CASE field = "secret" -> {"-s", "--secret"}
      [] field = "algo" -> {"-a", "--algo"}
      [] field = "digits" -> {"-d", "--digits"}
      [] field = "step" -> {"-t", "--step", "-p", "--period"}
      [] field = "issuer" -> {"-i", "--issuer"}
      [] field = "username" -> {"-u", "--username"}

\* the field was supplied on the command line
Flagged(field) == \E i \in 1..Len(call.args) : call.args[i][1] \in FlagsOf(field)

EditedName == call.fields.val.name[1]

\* C25: edit changes exactly the fields supplied on the command line of the
\* named record; every field not supplied keeps its value, the record stays
\* under its name, and every other record is unchanged
EditExact ==
    Edited =>
        /\ DOMAIN RecordsAfter = DOMAIN RecordsBefore
        /\ \A n \in (DOMAIN RecordsBefore) \ {EditedName} :
               RecordsAfter[n] = RecordsBefore[n]
        /\ \A f \in {"secret", "algo", "digits", "step"} :
               /\ Flagged(f) <=> call.fields.val[f] # None
               /\ RecordsAfter[EditedName][f] =
                      IF Flagged(f) THEN call.fields.val[f][1]
                      ELSE RecordsBefore[EditedName][f]
        /\ \A f \in {"issuer", "username"} :
               /\ Flagged(f) <=> call.fields.val[f] # None
               /\ RecordsAfter[EditedName][f] =
                      IF Flagged(f) THEN call.fields.val[f]
                      ELSE RecordsBefore[EditedName][f]
        /\ SealedKept

\* an edit of the record b, which has an issuer and SHA512, that gives it a
\* new step and a new username and nothing else
EditExactWitness ==
    /\ Edited
    /\ EditedName = NameB
    /\ Flagged("step") /\ Flagged("username")
    /\ ~Flagged("algo") /\ ~Flagged("issuer") /\ ~Flagged("secret")
    /\ RecordsAfter[NameB].step # RecordsBefore[NameB].step
    /\ RecordsAfter[NameB].username # RecordsBefore[NameB].username
    /\ RecordsAfter[NameB].algo = "SHA512"

\* the name the run looks up in the store
NameSought ==
    CASE call.fn = "edit" -> call.fields.val.name
      [] call.fn = "rename" -> call.original
      [] OTHER -> call.name

\* a run of drop, edit, rename, view or codes that opened the store and was
\* given a name that is not one of its keys
NameMissing ==
    /\ call.fn \in {"drop", "edit", "rename", "view", "codes"}
    /\ IsOk(call.loaded)
    /\ call.fn = "edit" => IsOk(call.fields)
    /\ call.fn = "rename" => call.renamed # None
    /\ NameSought # None
    /\ NameSought[1] \notin DOMAIN RecordsBefore

\* C26: drop, edit and rename on a name that is not a key of the loaded store
\* return the InvalidArgument error "given name does not exist in file", do
\* not call update_file and leave the file and every record as they were;
\* view and codes return the same error and print no record
NameNotFound ==
    NameMissing =>
        /\ IsErr(call.ran.saved.out)
        /\ call.ran.saved.out.kind = "InvalidArgument"
        /\ call.ran.saved.out.msg = "given name does not exist in file. "
        /\ call.ran.saved.out.val = NameSought[1]
        /\ call.ran.updates = 0
        /\ call.ran.saved.made = None
        /\ call.ran.saved.disk = call.store.disk
        /\ RecordsAfter = RecordsBefore
        /\ call.fn \in {"view", "codes"} => call.ran.printed = <<>>

\* a drop of a third name from a store of two records
NameNotFoundWitness ==
    /\ NameMissing
    /\ call.fn = "drop"
    /\ DOMAIN RecordsBefore = {NameA, NameB}
    /\ call.name = Some(NameC)

\* a run of add-url or add-json that opened the store
AddParsed == call.fn \in {"add-url", "add-json"} /\ IsOk(call.loaded)

\* the name the record goes under: -n, or for add-url the one the URL gives
ChosenName ==
    IF call.name # None THEN call.name[1]
    ELSE add_url_record(call.url[1].val, call.name).val.key

\* C27: add-url and add-json run with -v print the record but never insert
\* it and never call update_file, so the file is unchanged byte for byte;
\* without the flag the record is inserted under the chosen name and the
\* file is saved exactly once
ViewOnlyAdd ==
    /\ (AddParsed /\ call.view) =>
           /\ call.ran.updates = 0
           /\ call.ran.saved.made = None
           /\ call.ran.saved.disk = call.store.disk
           /\ RecordsAfter = RecordsBefore
    /\ (AddParsed /\ ~call.view /\ IsOk(call.ran.saved.out)) =>
           /\ call.ran.updates = 1
           /\ call.ran.saved.made # None
           /\ ChosenName \in DOMAIN RecordsAfter

\* an add-url run with -v whose URL gave a record, on a store without its name
ViewOnlyAddWitness ==
    /\ AddParsed
    /\ call.fn = "add-url"
    /\ call.view
    /\ IsOk(call.ran.saved.out)
    /\ IsOk(add_url_record(call.url[1].val, call.name))
    /\ ChosenName \notin DOMAIN RecordsBefore

\* a run of one of the four adding operations that got as far as update_file
Added == call.fn \in {"add", "add-gauth", "add-json", "add-url"} /\ RunSaved

\* the name and the record the run adds
AddedName ==
    CASE call.fn = "add" -> call.fields.val.name[1]
      [] call.fn = "add-gauth" -> IF call.name = None THEN S_Unknown ELSE call.name[1]
      [] OTHER -> ChosenName

AddedRecord ==
    CASE call.fn = "add" -> add_record(call.fields.val)
      [] call.fn = "add-gauth" -> TotpRecord(call.secret[1], "SHA1", 6, 30, None, None)
      [] call.fn = "add-json" -> from_str(call.json[1]).val
      [] call.fn = "add-url" -> add_url_record(call.url[1].val, call.name).val.record

\* C29: after a successful add, add-gauth, add-json or add-url of a name the
\* store maps the name to the new record and every other entry is unchanged;
\* when the name was a key its record is replaced without error and the
\* number of records does not change, otherwise it grows by exactly one
AddReplaces ==
    Added =>
        /\ IsOk(call.ran.saved.out)
        /\ DOMAIN RecordsAfter = (DOMAIN RecordsBefore) \cup {AddedName}
        /\ RecordsAfter[AddedName] = AddedRecord
        /\ \A n \in (DOMAIN RecordsBefore) \ {AddedName} :
               RecordsAfter[n] = RecordsBefore[n]
        /\ Cardinality(DOMAIN RecordsAfter) =
               IF AddedName \in DOMAIN RecordsBefore
               THEN Cardinality(DOMAIN RecordsBefore)
               ELSE Cardinality(DOMAIN RecordsBefore) + 1
        /\ SealedKept

\* an add-gauth under the name of a record with other values, in a store of
\* two records
AddReplacesWitness ==
    /\ Added
    /\ call.fn = "add-gauth"
    /\ DOMAIN RecordsBefore = {NameA, NameB}
    /\ AddedName = NameB
    /\ RecordsAfter[NameB] # RecordsBefore[NameB]

\* a call that kept the offset and the binary of its truncation
Truncated == call.fn = "generate_integer_string" /\ "offset" \in DOMAIN call

\* C30: for every digest length (20, 32 and 64 bytes) and every digest the
\* offset is in 0..15, the four bytes at offset..offset+3 lie inside the
\* digest, and the binary is in 0..2^31-1 because the top bit of the first
\* byte is masked off
TruncationInBounds ==
    Truncated =>
        /\ Len(call.hash) \in {20, 32, 64}
        /\ call.offset \in 0..15
        /\ call.offset = call.hash[Len(call.hash)] % 16
        /\ call.offset + 4 <= Len(call.hash)
        /\ call.binary >= 0
        /\ call.binary \div Pow2(24) <= 127
        /\ call.binary % Pow2(24) =
               call.hash[call.offset + 2] * Pow2(16)
               + call.hash[call.offset + 3] * Pow2(8) + call.hash[call.offset + 4]

\* a SHA1 digest whose last byte selects offset 15 and whose four bytes there
\* are all ones: the largest binary
TruncationInBoundsWitness ==
    /\ Truncated
    /\ Len(call.hash) = 20
    /\ call.offset = 15
    /\ call.hash[16] = 255
    /\ call.binary = IntMax

(***************************************************************************)
(* Properties of the codec (SpecCodec)                                     *)
(***************************************************************************)
\* the state right after TotpFile::encrypt returned a blob
JustSealed == blobState = "sealed" /\ opened = NoResult

SealedPlain == to_vec(sealRecords, sealOrder)

BytesRoundTrip(p) ==
    decrypt_data(sealKey, sealRng.val, encrypt_data(sealKey, sealRng.val, p).val) = Ok(p)

\* C1: decrypting with k the blob made by encrypting a record mapping with k
\* returns exactly that mapping, the empty mapping included; at the byte
\* level decrypt_data(k, n, encrypt_data(k, n, p)) = p, also for the empty p.
RoundTrip ==
    /\ (blobState = "sealed" /\ opened # NoResult /\ openKey = sealKey)
           => opened = Ok(sealRecords)
    /\ JustSealed => BytesRoundTrip(SealedPlain) /\ BytesRoundTrip(<<>>)

RoundTripWitness ==
    /\ blobState = "sealed"
    /\ openKey = sealKey
    /\ IsOk(opened)
    /\ Cardinality(DOMAIN opened.val) = 2

\* C2: decrypting a blob shorter than 24 bytes, the empty file included,
\* returns the error value "invalid file format", and does so before any
\* AEAD decryption is attempted.
ShortBlobFormatError ==
    (opened # NoResult /\ Len(blob) < 24)
        => /\ IsErr(opened)
           /\ opened.msg = "invalid file format for encrypted file"
           /\ ~openAead

\* C5: a blob made with key k1 and decrypted with another key k2 gives a
\* ChaChaError and never a record mapping.
WrongKeyRejected ==
    (blobState = "sealed" /\ opened # NoResult /\ openKey # sealKey)
        => IsErr(opened) /\ opened.kind = "ChaChaError"

WrongKeyWitness ==
    /\ blobState = "sealed"
    /\ opened # NoResult
    /\ openKey # sealKey
    /\ IsErr(opened)
    /\ sealRecords # EmptyDict

\* C6: after any single bit of a blob made by encrypt is changed, decrypt
\* with the original key fails with the authentication error; decrypt never
\* returns a mapping other than the one encrypted.
TamperDetected ==
    /\ (blobState = "flipped" /\ opened # NoResult /\ openKey = sealKey)
           => /\ IsErr(opened)
              /\ opened.kind = "ChaChaError"
              /\ opened.msg = "failed to decrypt requested data"
    /\ IsOk(opened) => opened.val = sealRecords

\* a bit of the nonce prefix was changed and the original key was used
TamperWitness ==
    /\ blobState = "flipped"
    /\ openKey = sealKey
    /\ IsErr(opened)
    /\ SubSeq(blob, 1, 24) # SubSeq(sealed.val, 1, 24)
    /\ Drop(blob, 24) = Drop(sealed.val, 24)

\* C7: the bytes encrypt returns are the nonce given to the cipher followed
\* by the cipher's output, 24 + plaintext length + 16 bytes in all; decrypt
\* takes its nonce from bytes 0..24 and its ciphertext from the rest.
BlobLayout ==
    JustSealed =>
        /\ SubSeq(sealed.val, 1, 24) = sealRng.val
        /\ Drop(sealed.val, 24) = encrypt_data(sealKey, sealRng.val, SealedPlain).val
        /\ Len(sealed.val) = 24 + Len(SealedPlain) + 16
        /\ NoncePart(sealed.val) = sealRng.val
        /\ EncryptedPart(sealed.val) = Drop(sealed.val, 24)
        /\ blob = sealed.val

BlobLayoutWitness ==
    /\ JustSealed
    /\ sealRecords # EmptyDict
    /\ Len(blob) > 24 + 16

\* an intact blob is opened with another key than it was sealed with
WrongKeyIntact == blobState = "sealed" /\ opened # NoResult /\ openKey # sealKey

\* a damaged blob that still holds a whole nonce is opened with its own key
DamagedRightKey ==
    /\ blobState \in {"flipped", "cut"}
    /\ Len(blob) >= 24
    /\ opened # NoResult
    /\ openKey = sealKey

\* C19: a wrong key on an intact blob and the right key on a damaged blob of
\* 24 bytes or more fail with one and the same error value, kind ChaChaError
\* and the same message, so the caller cannot tell the two causes apart.
FailureOpaque ==
    (WrongKeyIntact \/ DamagedRightKey)
        => opened = Err("ChaChaError", "failed to decrypt requested data")

\* a blob cut inside its tag is refused under its own key
FailureOpaqueWitness ==
    /\ DamagedRightKey
    /\ blobState = "cut"
    /\ Len(blob) > 24 + 16
    /\ IsErr(opened)
    /\ opened.kind = "ChaChaError"

(***************************************************************************)
(* Properties of code generation (SpecOtp)                                 *)
(***************************************************************************)
Printed == lastPrint # NoPrint

\* C4: for every record a store can hold and every clock reading, codes
\* either prints a code or returns an error value, and the only error of
\* code generation is MacError; it never panics.
CodesNeverPanic ==
    Printed =>
        \/ IsOk(lastPrint.out)
        \/ IsErr(lastPrint.out) /\ lastPrint.out.kind = "MacError"

\* C9: for every digits value the code is binary mod 10^digits; no digits
\* value makes the computation of 10^digits overflow, fail or abort.
DigitsWrapByModulo ==
    (Printed /\ lastPrint.at >= 0 /\ otpRecord.step > 0) => IsOk(lastPrint.out)

\* u64::from_be_bytes of counter bytes whose value is below 2^31
RECURSIVE from_be_bytes(_, _)
from_be_bytes(bytes, acc) ==
    IF bytes = <<>> THEN acc ELSE from_be_bytes(Tail(bytes), acc * 256 + Head(bytes))

SameWindow ==
    /\ IsOk(firstPrint.out)
    /\ IsOk(lastPrint.out)
    /\ firstPrint.at \div otpRecord.step = lastPrint.at \div otpRecord.step

\* C10: two code generations for one record whose clock readings fall in the
\* same floor(now/step) window give the identical code, and the counter
\* bytes are the big-endian u64 of floor(now/step).
StepWindows ==
    /\ SameWindow => firstPrint.out.val.code = lastPrint.out.val.code
    /\ IsOk(lastPrint.out)
           => /\ Len(lastPrint.out.val.data) = 8
              /\ from_be_bytes(lastPrint.out.val.data, 0)
                     = lastPrint.at \div otpRecord.step

\* two prints a second or more apart inside one window of a present-day clock
StepWindowsWitness ==
    /\ SameWindow
    /\ firstPrint.at # lastPrint.at
    /\ otpRecord.step = 30
    /\ lastPrint.at > 1700000000

BothPrinted == IsOk(firstPrint.out) /\ IsOk(lastPrint.out)

\* C11: the seconds left printed with a code are between 1 and step, are
\* step exactly when the clock reading is a multiple of step, and inside one
\* window fall by one for every second that passes.
SecondsRemaining ==
    /\ IsOk(lastPrint.out)
           => /\ lastPrint.out.val.left >= 1
              /\ lastPrint.out.val.left <= otpRecord.step
              /\ (lastPrint.out.val.left = otpRecord.step)
                     <=> (lastPrint.at % otpRecord.step = 0)
    /\ SameWindow
           => lastPrint.out.val.left
                  = firstPrint.out.val.left - (lastPrint.at - firstPrint.at)
    /\ (BothPrinted /\ ~SameWindow /\ lastPrint.at - firstPrint.at < otpRecord.step)
           => lastPrint.out.val.left > firstPrint.out.val.left

\* step 30: printed at 29 with one second left, then at 30 with thirty
SecondsRemainingWitness ==
    /\ BothPrinted
    /\ otpRecord.step = 30
    /\ firstPrint.at = 29
    /\ firstPrint.out.val.left = 1
    /\ lastPrint.at = 30
    /\ lastPrint.out.val.left = 30

(***************************************************************************)
(* Properties of file sessions (Spec)                                      *)
(***************************************************************************)
\* C3: a failure at any step of a save leaves the bytes on disk as they were
\* before the operation; no partially written file is ever observable.
WriteAfterEncode == ran.saved.struck # "none" => disk = before

\* the <<key, nonce>> pairs of the saves made with the key of the latest one
SameKeySaves ==
    IF ran.saved.sealing = None THEN {}
    ELSE {u \in used : u[1] = ran.saved.sealing[1][1]}

JsonGiven(j) ==
    /\ lastOp = "add-json"
    /\ given # None
    /\ given[1].json = Some(j)
    /\ ran.file # None

\* the record the latest add-json run put into the store it held
JsonInserted == ran.file[1].records[given[1].name[1]]

\* C14: a record object without algo, digits and step is read as SHA1, 6 and
\* 30 with the secret as given, and one with every field keeps every field;
\* a record object without secret makes add-json return JsonError with
\* nothing serialized and nothing written.
SchemaDefaults ==
    /\ (JsonGiven(J_secret_only) /\ ran.saved.made # None)
           => /\ JsonInserted.secret = <<72, 105>>
              /\ JsonInserted.algo = "SHA1"
              /\ JsonInserted.digits = 6
              /\ JsonInserted.step = 30
              /\ JsonInserted.issuer = None
              /\ JsonInserted.username = None
    /\ (JsonGiven(J_every_field) /\ ran.saved.made # None) => JsonInserted = RecB
    /\ JsonGiven(J_no_secret)
           => /\ IsErr(ran.saved.out)
              /\ ran.saved.out.kind = "JsonError"
              /\ ran.saved.made = None
              /\ ran.saved.struck = "none"
              /\ disk = before

\* add-json with only a secret went through on a store that held a record
SchemaDefaultsWitness ==
    /\ JsonGiven(J_secret_only)
    /\ IsOk(ran.saved.out)
    /\ ran.saved.struck = "none"
    /\ Cardinality(DOMAIN ran.file[1].records) = 2
    /\ JsonInserted.digits = 6

\* the latest run wrote an encrypted store
SealedRun ==
    /\ ran.file # None
    /\ ran.file[1].file_type = "TOTP"
    /\ IsOk(ran.saved.out)
    /\ ran.saved.made # None

\* the key of the passphrase typed in the latest run
TypedKey == make_key(prompted[1].val).val

Opening == {p \in Passphrases : IsOk(TotpFile_decrypt(make_key(p).val, before.bytes))}

\* the latest run did not get a store out of from_path
LoadFailed == lastOp \in {"add", "add-json", "drop"} /\ ran.file = None

\* C18: a run prompts at most once and makes one decrypt attempt, with the
\* key of what was typed: when that fails the run ends with that failure,
\* whatever other passphrase would have opened the file, and it draws no
\* nonce, encrypts nothing and leaves the file as it was.
NoRetry ==
    /\ Len(prompted) <= 1
    /\ (lastOp \in {"add", "add-json", "drop"} /\ IsTotpPath /\ before.exists)
           => IF IsOk(TotpFile_decrypt(TypedKey, before.bytes))
              THEN ran.file # None /\ ran.file[1].key = Some(TypedKey)
              ELSE LoadFailed
                   /\ ran.saved.out = TotpFile_decrypt(TypedKey, before.bytes)
    /\ LoadFailed
           => /\ ~IsOk(ran.saved.out)
              /\ ran.saved.made = None
              /\ ran.saved.rng = NoResult
              /\ ran.saved.sealing = None
              /\ disk = before

\* a wrong passphrase was refused while another one opens the file
NoRetryWitness ==
    /\ LoadFailed
    /\ IsErr(ran.saved.out)
    /\ ran.saved.out.kind = "ChaChaError"
    /\ Opening # {}
    /\ prompted[1].val \notin Opening

\* a run on a JSON or YAML store that called update_file, got Ok from it and
\* met no fault
PlainSaved ==
    /\ fileExt # None
    /\ to_ascii_lowercase(fileExt[1]) \in {S_json, S_yaml, S_yml}
    /\ ran.updates = 1
    /\ IsOk(ran.saved.out)
    /\ ran.saved.struck = "none"

\* C23: after every successful mutating operation on a JSON or YAML store the
\* bytes on disk are exactly the serialization of the records in memory, and
\* loading the file again gives those records, also when the serialization is
\* shorter than the file was
PlainSaveReload ==
    PlainSaved =>
        /\ disk.bytes = ran.saved.made[1]
        /\ IsOk(from_path(fileExt, disk, NoResult))
        /\ from_path(fileExt, disk, NoResult).val.records = ran.file[1].records

\* the store as a later run loads it when the same passphrase is typed
LoadedAgain == from_path(fileExt, disk, prompted[1])

\* C28: new creates the .totp file only when no file is at its path: when
\* the file exists it returns InvalidArgument before it prompts for a
\* passphrase and leaves the file as it is; otherwise it writes an encrypted
\* store of the empty mapping, which a later load given the same passphrase
\* decrypts to the empty mapping
NewOnlyWhenAbsent ==
    lastOp = "new" =>
        /\ IsTotpPath
        /\ before.exists =>
               /\ IsErr(ran.saved.out)
               /\ ran.saved.out.kind = "InvalidArgument"
               /\ ran.saved.out.msg = "the specified file already exists"
               /\ prompted = <<>>
               /\ ran.updates = 0
               /\ disk = before
        /\ (~before.exists /\ IsOk(ran.saved.out)) =>
               /\ prompted # <<>>
               /\ ran.updates = 1
               /\ disk.exists
               /\ Len(disk.bytes) = NONCE_LEN + Len(S_empty_map) + TAG_LEN
               /\ IsOk(LoadedAgain)
               /\ LoadedAgain.val.records = EmptyDict
               /\ LoadedAgain.val.key = Some(TypedKey)

\* a new on the path of a store that an earlier new wrote
NewOnlyWhenAbsentWitness ==
    /\ lastOp = "new"
    /\ before.exists
    /\ IsOk(TotpFile_decrypt(make_key(<<112, 119, 10>>).val, before.bytes))
    /\ disk = before

====
